---- MODULE Spec2Model ----
(***************************************************************************)
(* disclaw: reconciliation, snapshot/rollback and multi-server apply       *)
(* orchestration.  The reconciler (src/src/telemetry.ts, reconcile) is a   *)
(* function of the desired state, the live Discord state and the live      *)
(* OpenClaw routing state; applyCommand (src/src/commands/rollback.ts)     *)
(* drives the providers of src/src/providers/openclaw.ts.                  *)
(*                                                                         *)
(* JavaScript values are modelled as follows.  An object is a TLA+ record  *)
(* that has exactly the keys the object has (a sparse field map); an       *)
(* optional string that is present but undefined holds Undefined; arrays   *)
(* are sequences; template strings are built with \o.                      *)
(***************************************************************************)
EXTENDS Integers, Sequences, FiniteSets, TLC

\* ------------------------------------------------------------------------
\* JavaScript values
\* ------------------------------------------------------------------------

Undefined == "undefined"
Null == "null"
EmptyObject == [k \in {} |-> TRUE]

\* r.k of an object that may lack the key
Get(r, k) == IF k \in DOMAIN r THEN r[k] ELSE Undefined

\* !!r.k for a boolean-valued optional key
Truthy(r, k) == k \in DOMAIN r /\ r[k] = TRUE

\* { ...(cond ? { k: v } : {}) }
Opt(cond, k, v) == IF cond THEN (k :> v) ELSE EmptyObject

Min(S) == CHOOSE m \in S : \A n \in S : m <= n

Range(s) == {s[i] : i \in DOMAIN s}

RECURSIVE Flatten(_)
Flatten(ss) == IF ss = <<>> THEN <<>> ELSE Head(ss) \o Flatten(Tail(ss))

\* array.map(f) restricted to the elements that satisfy Keep, in array order
SelectIdx(s, Keep(_)) == {i \in DOMAIN s : Keep(s[i])}

\* ------------------------------------------------------------------------
\* String ordering.  The names the model uses, in UTF-16 code unit order
\* (Array.prototype.sort without a comparator) and in collation order
\* (String.prototype.localeCompare).
\* ------------------------------------------------------------------------

CodeUnitOrder ==
  <<"Alpha", "Beta", "Docker", "K8s", "alerts", "alpha", "general", "main", "other-agent">>

LocaleOrder ==
  <<"alerts", "alpha", "Alpha", "Beta", "Docker", "general", "K8s", "main", "other-agent">>

CodeUnitRank(s) == CHOOSE i \in DOMAIN CodeUnitOrder : CodeUnitOrder[i] = s

localeCompare(s) == CHOOSE i \in DOMAIN LocaleOrder : LocaleOrder[i] = s

\* localeCompare of `${parentChannel}:${name}`: no name of the model is a
\* prefix of another, so the parent decides and the name breaks the tie
ThreadKeyRank(parentChannel, name) ==
  localeCompare(parentChannel) * (Len(LocaleOrder) + 1) + localeCompare(name)

\* Array.prototype.sort is stable: elements with equal keys keep their order.
\* key[i] is the sort key of s[i].
SortTiesReversed(s, key) ==
  LET n == Len(s)
      pos(i) == 1 + Cardinality({j \in 1..n :
                       key[j] < key[i] \/ (key[j] = key[i] /\ j > i)})
  IN  [p \in 1..n |-> s[CHOOSE i \in 1..n : pos(i) = p]]

sort(s, key) ==
  LET n == Len(s)
      pos(i) == 1 + Cardinality({j \in 1..n :
                       key[j] < key[i] \/ (key[j] = key[i] /\ j < i)})
  IN  [p \in 1..n |-> s[CHOOSE i \in 1..n : pos(i) = p]]

keepOrder(s) == s

sortByName(s) == sort(s, [i \in DOMAIN s |-> localeCompare(s[i].name)])

\* ------------------------------------------------------------------------
\* flattenDesiredState (src/src/parser.ts)
\*
\* A DesiredState is [guild, channels, openclaw?].  An entry of channels is a
\* channel [name, topic?, restricted?, private?, addBot?, threads?] or a
\* category group [category, channels].  openclaw is
\* [requireMention?, agents], agents being the entries of the agents object
\* in insertion order, each [agentName, items] with items the channels of the
\* agent, [channel, requireMention?] (the string shorthand is one item, the
\* object form is its channels with the object's requireMention).
\* ------------------------------------------------------------------------

isCategoryGroup(entry) == "category" \in DOMAIN entry

FlatChannel(ch, group) ==
  [name |-> ch.name, topic |-> Get(ch, "topic")]
    @@ [k \in DOMAIN ch \cap {"restricted", "private", "addBot"} |-> ch[k]]
    @@ Opt(isCategoryGroup(group), "categoryName", Get(group, "category"))

FlatThreads(ch) ==
  IF "threads" \in DOMAIN ch
    THEN [i \in DOMAIN ch.threads |-> [parentChannel |-> ch.name, name |-> ch.threads[i]]]
    ELSE <<>>

EntryChannels(entry) ==
  IF isCategoryGroup(entry) THEN entry.channels ELSE <<entry>>

FlatBindings(openclaw) ==
  LET \* item.requireMention ?? guildDefault, a key of the binding when defined
      item(agentName, it) ==
        [agentName |-> agentName, channelRef |-> it.channel]
          @@ [k \in DOMAIN it \cap {"requireMention"} |-> it[k]]
          @@ [k \in DOMAIN openclaw \cap {"requireMention"} |-> openclaw[k]]
  IN  Flatten([a \in DOMAIN openclaw.agents |->
                [i \in DOMAIN openclaw.agents[a].items |->
                   item(openclaw.agents[a].agentName, openclaw.agents[a].items[i])]])

flattenDesiredState(state) ==
  LET groups == SelectSeq(state.channels, isCategoryGroup)
  IN  [categories |-> [i \in DOMAIN groups |-> groups[i].category],
       channels |->
         Flatten([e \in DOMAIN state.channels |->
                   LET chs == EntryChannels(state.channels[e])
                   IN  [i \in DOMAIN chs |-> FlatChannel(chs[i], state.channels[e])]]),
       threads |->
         Flatten([e \in DOMAIN state.channels |->
                   LET chs == EntryChannels(state.channels[e])
                   IN  Flatten([i \in DOMAIN chs |-> FlatThreads(chs[i])])]),
       bindings |->
         IF "openclaw" \in DOMAIN state THEN FlatBindings(state.openclaw) ELSE <<>>]

\* ------------------------------------------------------------------------
\* reconcile (src/src/telemetry.ts)
\*
\* DiscordState is [categories, channels, threads, pins]; a category is
\* [id, name], a channel [id, name, type, topic, categoryId, restricted?,
\* private?, addBot?], a thread [id, name, parentChannelId].  OpenClawState
\* is [bindings], a binding [agentId, match: [channel, peer: [kind, id]]].
\* The three sorts of reconcile are Array.prototype.sort on the caller's
\* arrays: each section below reads the array as it is at that line.
\* ------------------------------------------------------------------------

\* array.find: the first element that satisfies Test, as a sequence of
\* length 0 or 1
find(s, Test(_)) ==
  LET hits == SelectIdx(s, Test)
  IN  IF hits = {} THEN <<>> ELSE <<s[Min(hits)]>>

BindingName(agentName, channelRef) == agentName \o " -> " \o channelRef

RestrictedOnly(ch) == Opt(Truthy(ch, "restricted"), "restricted", TRUE)

ChannelFlags(ch) ==
  Opt(Truthy(ch, "restricted"), "restricted", TRUE)
    @@ Opt(Truthy(ch, "private"), "private", TRUE)
    @@ Opt(Truthy(ch, "addBot"), "addBot", TRUE)

\* 1. Categories: the desired names in sort() order against the array as passed
DesiredCategoryActions(flat, discord) ==
  LET names == sort(flat.categories,
                    [i \in DOMAIN flat.categories |-> CodeUnitRank(flat.categories[i])])
      action(catName) ==
        IF find(discord.categories, LAMBDA c : c.name = catName) = <<>>
          THEN [type |-> "create", resourceType |-> "category", name |-> catName,
                details |-> [after |-> [name |-> catName]]]
          ELSE [type |-> "noop", resourceType |-> "category", name |-> catName]
  IN  [i \in DOMAIN names |-> action(names[i])]

UnmanagedCategories(flat, sortedCategories) ==
  SelectSeq(sortedCategories, LAMBDA cat : cat.name \notin Range(flat.categories))

TopicOrCategoryChanged(existing, ch, existingCatName) ==
  \/ Get(existing, "topic") # ch.topic
  \/ existingCatName # Get(ch, "categoryName")

\* topicChanged || categoryChanged || restrictedChanged || privateChanged ||
\* addBotChanged
AttributesChanged(existing, ch, existingCatName) ==
  LET topicChanged == Get(existing, "topic") # ch.topic
      categoryChanged == existingCatName # Get(ch, "categoryName")
      restrictedChanged == Truthy(existing, "restricted") # Truthy(ch, "restricted")
      privateChanged == Truthy(existing, "private") # Truthy(ch, "private")
      addBotChanged == Truthy(existing, "addBot") # Truthy(ch, "addBot")
  IN  topicChanged \/ categoryChanged \/ restrictedChanged \/ privateChanged \/ addBotChanged

\* 2. Channels: desired channels by name against the array as passed and the
\* sorted categories
DesiredChannelAction(ch, channels, sortedCategories) ==
  LET found == find(channels, LAMBDA c : c.name = ch.name)
  IN  IF found = <<>>
        THEN [type |-> "create", resourceType |-> "channel", name |-> ch.name,
              details |-> [after |-> [topic |-> ch.topic] @@ ChannelFlags(ch)
                             @@ Opt("categoryName" \in DOMAIN ch, "categoryName",
                                    Get(ch, "categoryName"))]]
        ELSE
          LET existing == found[1]
              existingCat ==
                IF Get(existing, "categoryId") # Undefined
                  THEN find(sortedCategories, LAMBDA c : c.id = existing.categoryId)
                  ELSE <<>>
              existingCatName == IF existingCat = <<>> THEN Undefined ELSE existingCat[1].name
              categoryChanged == existingCatName # Get(ch, "categoryName")
          IN  IF AttributesChanged(existing, ch, existingCatName)
                THEN [type |-> "update", resourceType |-> "channel", name |-> ch.name,
                      details |->
                        [before |-> [topic |-> Get(existing, "topic")]
                                      @@ ChannelFlags(existing)
                                      @@ Opt(existingCat # <<>>, "categoryName", existingCatName),
                         after |-> [topic |-> ch.topic] @@ ChannelFlags(ch)
                                      @@ (IF "categoryName" \in DOMAIN ch
                                            THEN ("categoryName" :> ch.categoryName)
                                            ELSE Opt(categoryChanged, "categoryName", Null))]]
                ELSE [type |-> "noop", resourceType |-> "channel", name |-> ch.name]

DesiredChannelActions(flat, discord, sortedCategories) ==
  LET chs == sortByName(flat.channels)
  IN  [i \in DOMAIN chs |-> DesiredChannelAction(chs[i], discord.channels, sortedCategories)]

UnmanagedChannels(flat, sortedChannels) ==
  SelectSeq(sortedChannels,
            LAMBDA ch : ch.name \notin {flat.channels[i].name : i \in DOMAIN flat.channels})

DesiredThreadActionsByName(flat, sortedChannels, threads) ==
  LET ths == sort(flat.threads,
                  [i \in DOMAIN flat.threads |->
                     ThreadKeyRank(flat.threads[i].parentChannel, flat.threads[i].name)])
      action(th) ==
        IF find(threads, LAMBDA t : t.name = th.name) = <<>>
          THEN [type |-> "create", resourceType |-> "thread", name |-> th.name,
                details |-> [after |-> [parentChannel |-> th.parentChannel]]]
          ELSE [type |-> "noop", resourceType |-> "thread", name |-> th.name]
  IN  [i \in DOMAIN ths |-> action(ths[i])]

\* 3. Threads: desired threads by `${parentChannel}:${name}` against the
\* sorted channels and the threads as passed
DesiredThreadActions(flat, sortedChannels, threads) ==
  LET ths == sort(flat.threads,
                  [i \in DOMAIN flat.threads |->
                     ThreadKeyRank(flat.threads[i].parentChannel, flat.threads[i].name)])
      action(th) ==
        LET parentChannel == find(sortedChannels, LAMBDA c : c.name = th.parentChannel)
            existing ==
              find(threads, LAMBDA t : /\ t.name = th.name
                                        /\ parentChannel # <<>>
                                        /\ t.parentChannelId = parentChannel[1].id)
        IN  IF existing = <<>>
              THEN [type |-> "create", resourceType |-> "thread", name |-> th.name,
                    details |-> [after |-> [parentChannel |-> th.parentChannel]]]
              ELSE [type |-> "noop", resourceType |-> "thread", name |-> th.name]
  IN  [i \in DOMAIN ths |-> action(ths[i])]

ThreadKey(th, sortedChannels) ==
  LET parentChannel == find(sortedChannels, LAMBDA c : c.id = th.parentChannelId)
  IN  IF parentChannel # <<>>
        THEN parentChannel[1].name \o ":" \o th.name
        ELSE ":" \o th.name

UnmanagedThreadsByName(flat, sortedChannels, sortedThreads) ==
  SelectSeq(sortedThreads,
            LAMBDA th : th.name \notin {flat.threads[i].name : i \in DOMAIN flat.threads})

UnmanagedThreads(flat, sortedChannels, sortedThreads) ==
  LET desiredThreadKeys ==
        {flat.threads[i].parentChannel \o ":" \o flat.threads[i].name :
           i \in DOMAIN flat.threads}
  IN  SelectSeq(sortedThreads,
                LAMBDA th : ThreadKey(th, sortedChannels) \notin desiredThreadKeys)

\* 4. Bindings: desired bindings by agent name against the sorted channels
DesiredBindingActions(flat, sortedChannels, openclaw) ==
  LET bs == sort(flat.bindings,
                 [i \in DOMAIN flat.bindings |-> localeCompare(flat.bindings[i].agentName)])
      action(binding) ==
        LET resolvedChannel == find(sortedChannels, LAMBDA c : c.name = binding.channelRef)
            existing ==
              find(openclaw.bindings,
                   LAMBDA b : /\ b.agentId = binding.agentName
                              /\ resolvedChannel # <<>>
                              /\ b.match.peer.id = resolvedChannel[1].id)
        IN  [type |-> IF existing = <<>> THEN "create" ELSE "noop",
             resourceType |-> "binding",
             name |-> BindingName(binding.agentName, binding.channelRef),
             details |->
               [after |-> [agentName |-> binding.agentName,
                           channelRef |-> binding.channelRef]
                            @@ [k \in DOMAIN binding \cap {"requireMention"} |-> binding[k]]]]
  IN  [i \in DOMAIN bs |-> action(bs[i])]

\* the keys `${agentName}:${ch.id}` of the desired bindings whose channel exists
DesiredBindingKeys(flat, sortedChannels) ==
  LET key(b) ==
        LET ch == find(sortedChannels, LAMBDA c : c.name = b.channelRef)
        IN  IF ch # <<>> THEN {b.agentName \o ":" \o ch[1].id} ELSE {}
  IN  UNION {key(flat.bindings[i]) : i \in DOMAIN flat.bindings}

\* the stale bindings: every discord binding of the routing store, by agent
\* id, whose key is not desired
StaleBindings(flat, sortedChannels, openclaw) ==
  LET discordBindings == SelectSeq(openclaw.bindings, LAMBDA b : b.match.channel = "discord")
      sorted == sort(discordBindings,
                     [i \in DOMAIN discordBindings |-> localeCompare(discordBindings[i].agentId)])
  IN  SelectSeq(sorted,
                LAMBDA b : (b.agentId \o ":" \o b.match.peer.id)
                              \notin DesiredBindingKeys(flat, sortedChannels))

StaleBindingAction(binding, sortedChannels) ==
  LET ch == find(sortedChannels, LAMBDA c : c.id = binding.match.peer.id)
      channelName == IF ch # <<>> THEN ch[1].name ELSE binding.match.peer.id
  IN  [type |-> "delete", resourceType |-> "binding",
       name |-> BindingName(binding.agentId, channelName),
       details |-> [before |-> [agentName |-> binding.agentId,
                                channelRef |-> channelName,
                                resolvedChannelId |-> binding.match.peer.id]]]

\* the delete action or the unmanaged entry of an unmanaged resource
DeleteAction(resourceType, r) ==
  [type |-> "delete", resourceType |-> resourceType, name |-> r.name,
   details |-> [before |->
     CASE resourceType = "category" -> [id |-> r.id]
       [] resourceType = "channel" -> [id |-> r.id, topic |-> Get(r, "topic")]
       [] resourceType = "thread" -> [id |-> r.id, parentChannelId |-> r.parentChannelId]]]

UnmanagedEntry(resourceType, r) ==
  [resourceType |-> resourceType, name |-> r.name, id |-> r.id]
    @@ Opt(resourceType = "channel", "topic", Get(r, "topic"))

\* the arrays of discord after reconcile's in-place sorts
SortedDiscord(discord) ==
  [discord EXCEPT !.categories = sortByName(discord.categories),
                  !.channels = sortByName(discord.channels),
                  !.threads = sortByName(discord.threads)]

PruneAlways(options) == TRUE

\* options.prune
PruneRequested(options) == Truthy(options, "prune")

reconcile(desired, discord, openclaw, options) ==
  LET flat == flattenDesiredState(desired)
      prune == PruneRequested(options)
      sorted == SortedDiscord(discord)
      emit(resourceType, rs) ==
        IF prune THEN [i \in DOMAIN rs |-> DeleteAction(resourceType, rs[i])] ELSE <<>>
      report(resourceType, rs) ==
        IF prune THEN <<>> ELSE [i \in DOMAIN rs |-> UnmanagedEntry(resourceType, rs[i])]
      unmanagedCategories == UnmanagedCategories(flat, sorted.categories)
      unmanagedChannels == UnmanagedChannels(flat, sorted.channels)
      unmanagedThreads == UnmanagedThreads(flat, sorted.channels, sorted.threads)
      stale == StaleBindings(flat, sorted.channels, openclaw)
  IN  [actions |->
         DesiredCategoryActions(flat, discord)
           \o emit("category", unmanagedCategories)
           \o DesiredChannelActions(flat, discord, sorted.categories)
           \o emit("channel", unmanagedChannels)
           \o DesiredThreadActions(flat, sorted.channels, discord.threads)
           \o emit("thread", unmanagedThreads)
           \o DesiredBindingActions(flat, sorted.channels, openclaw)
           \o [i \in DOMAIN stale |-> StaleBindingAction(stale[i], sorted.channels)],
       unmanaged |->
         report("category", unmanagedCategories)
           \o report("channel", unmanagedChannels)
           \o report("thread", unmanagedThreads)]


\* ------------------------------------------------------------------------
\* filterActions (src/src/filter.ts) and toDiffJson, formatDriftWarnings
\* (src/unnamed/part_001).  A filter is the set of resource types it keeps;
\* an invocation without a filter has no filter key.
\* ------------------------------------------------------------------------

filterActions(actions, args) ==
  IF "filter" \notin DOMAIN args THEN actions
  ELSE SelectSeq(actions, LAMBDA a : a.resourceType \in args.filter)

\* action.details?.before and action.details?.after, {} when there is none
Details(a, side) ==
  IF "details" \in DOMAIN a /\ side \in DOMAIN a.details THEN a.details[side] ELSE EmptyObject

toDiffJson(actions, serverName) ==
  [i \in DOMAIN actions |->
     [op |-> actions[i].type, type |-> actions[i].resourceType, name |-> actions[i].name,
      server |-> serverName]
       @@ [k \in (IF "details" \in DOMAIN actions[i] THEN DOMAIN actions[i].details ELSE {})
             |-> actions[i].details[k]]]

\* the entries of the JSON report of a server that was applied
AppliedEntries(actions, serverName) ==
  [i \in DOMAIN actions |->
     [op |-> actions[i].type, type |-> actions[i].resourceType, name |-> actions[i].name,
      status |-> IF actions[i].type = "noop" THEN "skipped" ELSE "applied",
      server |-> serverName]]

\* the drift lines: a snapshot action whose counterpart among the current
\* actions (same resource type and name, the first one) has another type
formatDriftWarnings(snapshotActions, currentActions) ==
  LET line(sa) ==
        LET ca == find(currentActions,
                       LAMBDA c : c.resourceType = sa.resourceType /\ c.name = sa.name)
        IN  IF ca # <<>> /\ ca[1].type # sa.type
              THEN <<[resourceType |-> sa.resourceType, name |-> sa.name,
                      expected |-> sa.type, found |-> ca[1].type]>>
              ELSE <<>>
  IN  Flatten([i \in DOMAIN snapshotActions |-> line(snapshotActions[i])])

\* ------------------------------------------------------------------------
\* DiscordProvider (src/src/providers/openclaw.ts).  A guild is
\* [categories, channels, threads], each in the order Discord lists them
\* (creation order).  ids is the supply of ids Discord will hand out next.
\* ------------------------------------------------------------------------

Max(S) == CHOOSE m \in S : \A n \in S : m >= n

\* a value of an optional string that is neither undefined nor null
IsString(v) == v \notin {Undefined, Null}

MapGet(m, k) == IF k \in DOMAIN m THEN m[k] ELSE Undefined
MapSet(m, k, v) == (k :> v) @@ m
MapDelete(m, k) == [x \in DOMAIN m \ {k} |-> m[x]]

\* the name -> id map apply builds from the fetched collection: a later
\* entry of the same name replaces an earlier one
NameMap(s) ==
  [n \in {s[i].name : i \in DOMAIN s} |->
     s[Max({i \in DOMAIN s : s[i].name = n})].id]

DiscordProvider_fetch(guild) ==
  [categories |-> sortByName(guild.categories),
   channels |-> sortByName(guild.channels),
   threads |->
     sortByName(Flatten([i \in DOMAIN guild.channels |->
                  SelectSeq(guild.threads,
                            LAMBDA th : th.parentChannelId = guild.channels[i].id)])),
   pins |-> <<>>]

buildPermissionOverwrites(isPrivate, addBot) ==
  Opt(isPrivate, "private", TRUE) @@ Opt(addBot, "addBot", TRUE)

\* one iteration of the loop of apply on st = [guild, channelMap,
\* categoryMap, ids]
ApplyAction(st, action) ==
  LET after == Details(action, "after")
      before == Details(action, "before")
      categoryName == Get(after, "categoryName")
      parentId == IF IsString(categoryName) THEN MapGet(st.categoryMap, categoryName)
                  ELSE Undefined
      flags == Opt(Truthy(after, "restricted"), "restricted", TRUE)
      overwrites == buildPermissionOverwrites(Truthy(after, "private"), Truthy(after, "addBot"))
      edit(ch) ==
        [id |-> ch.id, name |-> ch.name, type |-> ch.type,
         topic |-> IF IsString(Get(after, "topic")) THEN after.topic ELSE ch.topic,
         categoryId |-> IF "categoryName" \in DOMAIN after THEN parentId ELSE ch.categoryId]
          @@ flags
          @@ (IF "private" \in DOMAIN after \/ "addBot" \in DOMAIN after
                THEN overwrites
                ELSE [k \in DOMAIN ch \cap {"private", "addBot"} |-> ch[k]])
  IN  CASE action.resourceType = "category" /\ action.type = "create" ->
             [st EXCEPT !.guild.categories = Append(@, [id |-> Head(st.ids), name |-> action.name]),
                        !.categoryMap = MapSet(@, action.name, Head(st.ids)),
                        !.ids = Tail(@)]
        [] action.resourceType = "category" /\ action.type = "delete" ->
             LET catId == IF "id" \in DOMAIN before THEN before.id
                          ELSE MapGet(st.categoryMap, action.name)
             IN  IF catId = Undefined THEN st
                 ELSE [st EXCEPT
                         !.guild.categories = SelectSeq(@, LAMBDA c : c.id # catId),
                         !.guild.channels =
                           [i \in DOMAIN st.guild.channels |->
                              IF st.guild.channels[i].categoryId = catId
                                THEN [st.guild.channels[i] EXCEPT !.categoryId = Undefined]
                                ELSE st.guild.channels[i]],
                         !.categoryMap = MapDelete(@, action.name)]
        [] action.resourceType = "channel" /\ action.type = "create" ->
             [st EXCEPT
                !.guild.channels =
                  Append(@, [id |-> Head(st.ids), name |-> action.name, type |-> "text",
                             topic |-> Get(after, "topic"), categoryId |-> parentId]
                              @@ flags @@ overwrites),
                !.channelMap = MapSet(@, action.name, Head(st.ids)),
                !.ids = Tail(@)]
        [] action.resourceType = "channel" /\ action.type = "update" ->
             LET chId == MapGet(st.channelMap, action.name)
             IN  IF chId = Undefined THEN st
                 ELSE [st EXCEPT
                         !.guild.channels =
                           [i \in DOMAIN st.guild.channels |->
                              IF st.guild.channels[i].id = chId
                                THEN edit(st.guild.channels[i])
                                ELSE st.guild.channels[i]]]
        [] action.resourceType = "channel" /\ action.type = "delete" ->
             LET chId == IF "id" \in DOMAIN before THEN before.id
                         ELSE MapGet(st.channelMap, action.name)
             IN  IF chId = Undefined THEN st
                 ELSE [st EXCEPT
                         !.guild.channels = SelectSeq(@, LAMBDA c : c.id # chId),
                         !.guild.threads = SelectSeq(@, LAMBDA th : th.parentChannelId # chId),
                         !.channelMap = MapDelete(@, action.name)]
        [] action.resourceType = "thread" /\ action.type = "create" ->
             LET parentName == Get(after, "parentChannel")
                 threadParent == IF IsString(parentName) THEN MapGet(st.channelMap, parentName)
                                 ELSE Undefined
             IN  IF threadParent = Undefined THEN st
                 ELSE [st EXCEPT
                         !.guild.threads =
                           Append(@, [id |-> Head(st.ids), name |-> action.name,
                                      parentChannelId |-> threadParent]),
                         !.ids = Tail(@)]
        [] action.resourceType = "thread" /\ action.type = "delete" ->
             IF "id" \notin DOMAIN before THEN st
             ELSE [st EXCEPT !.guild.threads = SelectSeq(@, LAMBDA th : th.id # before.id)]
        [] OTHER -> st

RECURSIVE ApplyActions(_, _)
ApplyActions(st, actions) ==
  IF actions = <<>> THEN st
  ELSE ApplyActions(ApplyAction(st, Head(actions)), Tail(actions))

\* apply(actions) on a guild: [guild, channelMap, categoryMap, ids] when the
\* loop has ended
DiscordProvider_apply(guild, actions, ids) ==
  ApplyActions([guild |-> guild,
                channelMap |-> NameMap(guild.channels),
                categoryMap |-> NameMap(guild.categories),
                ids |-> ids],
               actions)

DiscordProvider_verify(guild, expected) ==
  LET actual == DiscordProvider_fetch(guild)
  IN  /\ \A i \in DOMAIN expected.categories :
           \E j \in DOMAIN actual.categories :
             actual.categories[j].name = expected.categories[i].name
      /\ \A i \in DOMAIN expected.channels :
           \E j \in DOMAIN actual.channels :
             actual.channels[j].name = expected.channels[i].name

\* the id of the first channel or category of the guild with the name
getChannelIdByName(guild, name) ==
  LET ch == find(guild.categories \o guild.channels, LAMBDA c : c.name = name)
  IN  IF ch = <<>> THEN Undefined ELSE ch[1].id

\* ------------------------------------------------------------------------
\* OpenClawAPIProvider (src/src/providers/openclaw.ts).  The gateway
\* configuration is [bindings, guilds]: gateway.guilds[guildId] is the
\* channels object of the guild's routing, channel id -> [allow,
\* requireMention?].  The provider's cache is emptied by every patch and no
\* one else writes the configuration while a command runs, so a read of the
\* cache returns the configuration of the gateway; the cache itself is
\* modelled further down, for the provider on its own.
\* ------------------------------------------------------------------------

\* a binding of an agent to a Discord channel
DiscordBinding(agentId, channelId) ==
  [agentId |-> agentId,
   match |-> [channel |-> "discord", peer |-> [kind |-> "channel", id |-> channelId]]]

OpenClawAPIProvider_fetch(gateway) == [bindings |-> gateway.bindings]

\* one binding mutation on the copy of the bindings
ApplyBindingMutation(updated, action) ==
  LET after == Details(action, "after")
      before == Details(action, "before")
  IN  CASE action.type = "create" /\ DOMAIN after # {} ->
             IF IsString(Get(after, "resolvedChannelId"))
               THEN Append(updated, DiscordBinding(after.agentName, after.resolvedChannelId))
               ELSE updated
        [] action.type = "delete" /\ DOMAIN before # {} ->
             LET channelId == Get(before, "resolvedChannelId")
                 hits == {i \in DOMAIN updated :
                            /\ updated[i].agentId = before.agentName
                            /\ (~IsString(channelId) \/ updated[i].match.peer.id = channelId)}
             IN  IF hits = {} THEN updated
                 ELSE [i \in 1..(Len(updated) - 1) |->
                         IF i < Min(hits) THEN updated[i] ELSE updated[i + 1]]
        [] OTHER -> updated

RECURSIVE UpdatedBindings(_, _)
UpdatedBindings(updated, bindingMutations) ==
  IF bindingMutations = <<>> THEN updated
  ELSE UpdatedBindings(ApplyBindingMutation(updated, Head(bindingMutations)),
                       Tail(bindingMutations))

\* one iteration of the loop of syncRoutingGates; updatedBindings is <<>>
\* when apply patched no bindings and <<the bindings>> when it did
SyncGate(channels, action, updatedBindings) ==
  LET details == Details(action, "after")
      channelId == Get(details, "resolvedChannelId")
      existing == IF channelId \in DOMAIN channels THEN channels[channelId] ELSE EmptyObject
      deleteChannelId == Get(Details(action, "before"), "resolvedChannelId")
      boundChannelIds ==
        {updatedBindings[1][i].match.peer.id :
           i \in {j \in DOMAIN updatedBindings[1] :
                    updatedBindings[1][j].match.channel = "discord"}}
  IN  IF DOMAIN details = {} \/ ~IsString(channelId) THEN channels
      ELSE IF action.type \in {"create", "noop"}
        THEN MapSet(channels, channelId,
                    [k \in DOMAIN details \cap {"requireMention"} |-> details[k]]
                      @@ [allow |-> TRUE] @@ existing)
      ELSE IF /\ action.type = "delete"
              /\ IsString(deleteChannelId)
              /\ updatedBindings # <<>>
              /\ deleteChannelId \notin boundChannelIds
              /\ deleteChannelId \in DOMAIN channels
        THEN MapSet(channels, deleteChannelId,
                    [allow |-> FALSE] @@ channels[deleteChannelId])
      ELSE channels

RECURSIVE syncRoutingGates(_, _, _)
syncRoutingGates(channels, allBindingActions, updatedBindings) ==
  IF allBindingActions = <<>> THEN channels
  ELSE syncRoutingGates(SyncGate(channels, Head(allBindingActions), updatedBindings),
                        Tail(allBindingActions), updatedBindings)

\* the configuration patches apply(actions, {guildId}) sends
PatchesOf(actions) ==
  LET allBindingActions == SelectSeq(actions, LAMBDA a : a.resourceType = "binding")
      bindingMutations == SelectSeq(allBindingActions, LAMBDA a : a.type # "noop")
  IN  (IF bindingMutations # <<>> THEN 1 ELSE 0) + (IF allBindingActions # <<>> THEN 1 ELSE 0)

\* apply(actions, {guildId}) of which the first `patches` configuration
\* patches reach the gateway
OpenClawAPIProvider_apply(gateway, actions, guildId, patches) ==
  LET allBindingActions == SelectSeq(actions, LAMBDA a : a.resourceType = "binding")
      bindingMutations == SelectSeq(allBindingActions, LAMBDA a : a.type # "noop")
      updated == UpdatedBindings(gateway.bindings, bindingMutations)
      patched == IF bindingMutations # <<>> /\ patches >= 1
                   THEN [gateway EXCEPT !.bindings = updated] ELSE gateway
  IN  IF allBindingActions # <<>> /\ patches >= PatchesOf(actions)
        THEN [patched EXCEPT
                !.guilds[guildId] =
                  syncRoutingGates(@, allBindingActions,
                                   IF bindingMutations # <<>> THEN <<updated>> ELSE <<>>)]
        ELSE patched

OpenClawAPIProvider_verify(gateway, expected) ==
  \A i \in DOMAIN expected.bindings :
    \E j \in DOMAIN gateway.bindings :
      /\ gateway.bindings[j].agentId = expected.bindings[i].agentId
      /\ gateway.bindings[j].match.channel = expected.bindings[i].match.channel
      /\ gateway.bindings[j].match.peer.id = expected.bindings[i].match.peer.id

\* ------------------------------------------------------------------------
\* Snapshot store (src/src/snapshot.ts).  A snapshot is [configHash,
\* servers, openclaw]; servers is the entries of the servers object in
\* insertion order, each [name, guildId, discord].  The file holds the JSON
\* text, in which a property whose value is undefined does not appear.
\* ------------------------------------------------------------------------

DropsTopics(discordState) ==
  [discordState EXCEPT
     !.channels = [i \in DOMAIN discordState.channels |->
                     [k \in DOMAIN discordState.channels[i] \ {"topic", "categoryId"}
                        |-> discordState.channels[i][k]]]]

\* JSON.stringify of a fetched state: the undefined topic and categoryId of
\* a channel are dropped
StringifyState(discordState) ==
  [discordState EXCEPT
     !.channels =
       [i \in DOMAIN discordState.channels |->
          LET ch == discordState.channels[i]
          IN  [k \in {x \in DOMAIN ch : x \in {"topic", "categoryId"} => ch[x] # Undefined}
                 |-> ch[k]]]]

saveSnapshot(snapshot) ==
  [snapshot EXCEPT
     !.servers = [i \in DOMAIN snapshot.servers |->
                    [snapshot.servers[i] EXCEPT !.discord = StringifyState(@)]]]

\* the content of a file whose text JSON.parse rejects
NotJson == [syntaxError |-> TRUE]

Unmigrated(raw) == raw

\* the migration shim: the old format has discord at top level
Migrated(raw) ==
  IF "discord" \in DOMAIN raw /\ "servers" \notin DOMAIN raw
    THEN [configHash |-> raw.configHash,
          servers |-> <<[name |-> "default", guildId |-> "unknown",
                         discord |-> raw.discord]>>,
          openclaw |-> raw.openclaw]
    ELSE raw

loadUncaught(file) == IF file = <<>> THEN <<>> ELSE <<Migrated(file[1])>>

\* the file is absent (<<>>), or holds text that is not JSON (<<NotJson>>), or
\* a snapshot of one of the two formats (<<content>>).  readFileSync throws
\* on the first, JSON.parse on the second; the catch returns null, which is
\* the result <<>>
loadSnapshot(file) ==
  IF file = <<>> \/ file[1] = NotJson THEN <<>> ELSE <<Migrated(file[1])>>

\* ------------------------------------------------------------------------
\* snapshotToDesired (src/src/commands/rollback.ts)
\* ------------------------------------------------------------------------

snapshotToDesired(discordState, guildId, openclawState) ==
  LET categories ==
        IF "categories" \in DOMAIN discordState THEN discordState.categories
        ELSE IF "category" \in DOMAIN discordState THEN <<discordState.category>>
        ELSE <<>>
      \* categoryNameById.get(ch.categoryId): the last category of the id
      catName(ch) ==
        LET hits == {i \in DOMAIN categories : categories[i].id = Get(ch, "categoryId")}
        IN  IF Get(ch, "categoryId") = Undefined \/ hits = {} THEN Undefined
            ELSE categories[Max(hits)].name
      desiredCh(ch) ==
        LET threads == SelectSeq(discordState.threads, LAMBDA th : th.parentChannelId = ch.id)
        IN  [name |-> ch.name]
              @@ Opt(IsString(Get(ch, "topic")), "topic", Get(ch, "topic"))
              @@ Opt(Truthy(ch, "restricted"), "restricted", TRUE)
              @@ Opt(threads # <<>>, "threads", [i \in DOMAIN threads |-> threads[i].name])
      topLevelChannels == SelectSeq(discordState.channels, LAMBDA ch : catName(ch) = Undefined)
      \* the Map keeps one list per category name
      channelsByCategory(name) ==
        SelectSeq(discordState.channels, LAMBDA ch : catName(ch) = name)
      groups == SelectSeq(categories, LAMBDA cat : channelsByCategory(cat.name) # <<>>)
      bound == SelectSeq(openclawState.bindings,
                         LAMBDA b : /\ b.match.channel = "discord"
                                    /\ \E i \in DOMAIN discordState.channels :
                                         discordState.channels[i].id = b.match.peer.id)
      \* agents[b.agentId] = name: a key keeps the place of its first
      \* assignment and the value of its last
      agentKeys == {i \in DOMAIN bound : \A j \in 1..(i - 1) : bound[j].agentId # bound[i].agentId}
      lastOf(agentId) == bound[Max({i \in DOMAIN bound : bound[i].agentId = agentId})]
      channelName(b) ==
        find(discordState.channels, LAMBDA c : c.id = b.match.peer.id)[1].name
      agents ==
        [n \in 1..Cardinality(agentKeys) |->
           LET i == CHOOSE i \in agentKeys : Cardinality({j \in agentKeys : j < i}) = n - 1
           IN  [agentName |-> bound[i].agentId,
                items |-> <<[channel |-> channelName(lastOf(bound[i].agentId))]>>]]
  IN  [guild |-> guildId,
       channels |->
         [i \in DOMAIN topLevelChannels |-> desiredCh(topLevelChannels[i])]
           \o [i \in DOMAIN groups |->
                 [category |-> groups[i].name,
                  channels |-> LET chs == channelsByCategory(groups[i].name)
                               IN  [j \in DOMAIN chs |-> desiredCh(chs[j])]]]]
        @@ (IF agents # <<>> THEN [openclaw |-> [agents |-> agents]] ELSE EmptyObject)

\* ------------------------------------------------------------------------
\* Bounds and the values the inputs are drawn from
\* ------------------------------------------------------------------------

MaxCalls == 2
MaxDesiredCategories == 2
MaxDesiredChannels == 2
MaxDesiredThreads == 2
MaxDesiredBindings == 2
MaxLiveCategories == 2
MaxLiveChannels == 2
MaxLiveThreads == 2
MaxLiveBindings == 2

CategoryNames == {"Alpha", "Beta", "alpha"}
ChannelNames == {"general", "alerts"}
ThreadNames == {"K8s", "Docker"}
AgentNames == {"main", "other-agent"}
CategoryIds == <<"cat1", "cat2", "cat3">>
ChannelIds == <<"ch1", "ch2", "ch3">>
ThreadIds == <<"th1", "th2", "th3">>
\* the id of a channel of a guild other than the one being reconciled
ForeignChannelId == "ch99"

Perms(n) == {p \in [1..n -> 1..n] : \A i, j \in 1..n : p[i] = p[j] => i = j}

\* the sequences of at most n distinct elements of S
DistinctSeqs(S, n) ==
  UNION {{s \in [1..k -> S] : \A i, j \in 1..k : s[i] = s[j] => i = j} : k \in 0..n}

\* the live arrays of at most n resources: the first k ids carry attributes
\* of Attrs (names may repeat, ids do not), in any array order
LiveLists(ids, Attrs, n) ==
  UNION {{[i \in 1..k |-> ("id" :> ids[ap[2][i]]) @@ ap[1][ap[2][i]]] :
            ap \in [1..k -> Attrs] \X Perms(k)} : k \in 0..n}

AllFlags ==
  {Opt(r, "restricted", TRUE) @@ Opt(p, "private", TRUE) @@ Opt(b, "addBot", TRUE) :
     r \in BOOLEAN, p \in BOOLEAN, b \in BOOLEAN}

NoDiscord == [categories |-> <<>>, channels |-> <<>>, threads |-> <<>>, pins |-> <<>>]
NoOpenClaw == [bindings |-> <<>>]

\* a live channel as fetch returns it
LiveChannelAttrs(names, topics, categoryIds, flags) ==
  {[name |-> n, type |-> "text", topic |-> t, categoryId |-> c] @@ f :
     n \in names, t \in topics, c \in categoryIds, f \in flags}

\* -- inputs that vary the categories
CategoryInputs ==
  {[desired |-> [guild |-> "gA",
                 channels |-> [i \in DOMAIN cs |-> [category |-> cs[i], channels |-> <<>>]]],
    discord |-> [NoDiscord EXCEPT !.categories = live],
    openclaw |-> NoOpenClaw] :
     cs \in DistinctSeqs(CategoryNames, MaxDesiredCategories),
     live \in LiveLists(CategoryIds, [name : CategoryNames], MaxLiveCategories)}

\* the desired channel arrays of at most n channels of Choices, names distinct
\* (validateDesiredState rejects a duplicate name)
DesiredChannelLists(Choices, n) ==
  {s \in DistinctSeqs(Choices, n) : \A i, j \in DOMAIN s : s[i].name = s[j].name => i = j}

\* -- inputs that vary the channel lists
ChannelListInputs ==
  {[desired |-> [guild |-> "gA", channels |-> chs],
    discord |-> [NoDiscord EXCEPT !.channels = live],
    openclaw |-> NoOpenClaw] :
     chs \in DesiredChannelLists({[name |-> n] @@ Opt(t, "topic", "Ops") :
                                    n \in ChannelNames, t \in BOOLEAN},
                                 MaxDesiredChannels),
     live \in LiveLists(ChannelIds,
                        LiveChannelAttrs(ChannelNames, {Undefined, "Ops"}, {Undefined},
                                         {EmptyObject}),
                        MaxLiveChannels)}

\* -- inputs that vary the attributes of one channel: every pair of flag
\* sets, and every pair of topics and categories
ChannelAttributeInputs ==
  LET Input(topic, f, cat, live) ==
        [desired |-> [guild |-> "gA",
                      channels |->
                        LET ch == [name |-> "general"]
                                    @@ Opt(topic # Undefined, "topic", topic) @@ f
                        IN  IF cat = Undefined THEN <<ch>>
                            ELSE <<[category |-> cat, channels |-> <<ch>>]>>],
         discord |-> [NoDiscord EXCEPT
                        !.categories = <<[id |-> "cat1", name |-> "Alpha"],
                                         [id |-> "cat2", name |-> "Beta"]>>,
                        !.channels = <<("id" :> "ch1") @@ live>>],
         openclaw |-> NoOpenClaw]
  IN  {Input(topic, f, Undefined, live) :
         topic \in {Undefined, "Ops"}, f \in AllFlags,
         live \in LiveChannelAttrs({"general"}, {Undefined, "Ops"}, {Undefined}, AllFlags)}
      \cup
      {Input(topic, f, cat, live) :
         topic \in {Undefined, "Ops"}, f \in {EmptyObject, [restricted |-> TRUE]},
         cat \in {Undefined, "Alpha", "Beta"},
         live \in LiveChannelAttrs({"general"}, {Undefined, "Ops", "Old"},
                                   {Undefined, "cat1", "cat2"},
                                   {EmptyObject, [restricted |-> TRUE]})}

\* the live channel arrays the thread and binding inputs are set against
LiveChannel(id, name) ==
  [id |-> id, name |-> name, type |-> "text", topic |-> Undefined, categoryId |-> Undefined]

\* the ways to split at most n items among the channels or agents 1..k, each
\* getting a sequence of distinct elements of S
Split(S, k, n) ==
  {f \in [1..k -> DistinctSeqs(S, n)] :
     \A i \in 1..k : \A j \in 1..k : i # j => Len(f[i]) + Len(f[j]) <= n}

\* -- inputs that vary the threads
ThreadInputs ==
  {[desired |-> [guild |-> "gA",
                 channels |-> [i \in 1..2 |->
                                 [name |-> <<"general", "alerts">>[i]]
                                   @@ Opt(ths[i] # <<>>, "threads", ths[i])]],
    discord |-> [NoDiscord EXCEPT !.channels = chs, !.threads = live],
    openclaw |-> NoOpenClaw] :
     ths \in Split(ThreadNames, 2, MaxDesiredThreads),
     chs \in {<<LiveChannel("ch2", "general"), LiveChannel("ch1", "alerts")>>,
              <<LiveChannel("ch1", "general"), LiveChannel("ch2", "general")>>},
     live \in LiveLists(ThreadIds, [name : ThreadNames, parentChannelId : {"ch1", "ch2"}],
                        MaxLiveThreads)}

\* the agents of a desired state over the channels refs: every agent binds at
\* least one channel, none twice (validateDesiredState)
DesiredAgents(refs) ==
  UNION {{[i \in DOMAIN as |-> [agentName |-> as[i],
                                items |-> [j \in DOMAIN f[i] |-> [channel |-> f[i][j]]]]] :
            f \in {g \in Split(refs, 2, MaxDesiredBindings) :
                     \A i \in 1..2 : (g[i] # <<>>) <=> (i \in DOMAIN as)}} :
         as \in DistinctSeqs(AgentNames, 2)}

\* the routing store: bindings of this guild's channels, of another guild's
\* channel and of another messaging channel
LiveBindingLists ==
  LET Bindings ==
        {DiscordBinding(a, c) : a \in AgentNames, c \in {"ch1", ForeignChannelId}}
          \cup {DiscordBinding("main", "ch2")}
          \cup {[agentId |-> "main",
                 match |-> [channel |-> "telegram", peer |-> [kind |-> "channel", id |-> "ch1"]]]}
  IN  UNION {[1..k -> Bindings] : k \in 0..MaxLiveBindings}

\* -- inputs that vary the bindings
BindingInputs ==
  UNION {{[desired |-> [guild |-> "gA",
                        channels |-> [i \in DOMAIN ns |-> [name |-> ns[i]]],
                        openclaw |-> [agents |-> agents]],
           discord |-> [NoDiscord EXCEPT !.channels = chs],
           openclaw |-> [bindings |-> live]] :
            agents \in DesiredAgents(Range(ns)),
            chs \in {<<LiveChannel("ch1", "general")>>,
                     <<LiveChannel("ch2", "general"), LiveChannel("ch1", "alerts")>>},
            live \in LiveBindingLists} :
         ns \in {<<"general">>, <<"general", "alerts">>}}

\* -- inputs that vary the mention requirement of one binding
RequireMentionInputs ==
  {[desired |-> [guild |-> "gA",
                 channels |-> <<[name |-> "general"]>>,
                 openclaw |-> guildDefault @@
                   [agents |-> <<[agentName |-> "main",
                                  items |-> <<[channel |-> "general"] @@ own>>]>>]],
    discord |-> [NoDiscord EXCEPT !.channels = chs],
    openclaw |-> [bindings |-> live]] :
     guildDefault \in {EmptyObject, [requireMention |-> TRUE]},
     own \in {EmptyObject, [requireMention |-> FALSE], [requireMention |-> TRUE]},
     chs \in {<<>>, <<LiveChannel("ch1", "general")>>},
     live \in {<<>>, <<DiscordBinding("main", "ch1")>>}}

\* the families of inputs reconcile is run on
ReconcileInputs ==
  <<CategoryInputs, ChannelListInputs, ChannelAttributeInputs,
    ThreadInputs, BindingInputs, RequireMentionInputs>>


\* ------------------------------------------------------------------------
\* The configurations, guilds and routing stores the commands run against
\* ------------------------------------------------------------------------

MaxFaults == 1

GuildIds == {"gA", "gB"}

\* the ids Discord hands out to what the commands create
FreshIds == <<"n1", "n2", "n3", "n4", "n5", "n6", "n7", "n8", "n9", "n10">>

\* a server of the configuration: one channel bound to an agent
PlainServer ==
  [channels |-> <<[name |-> "general"]>>,
   openclaw |-> [agents |-> <<[agentName |-> "main",
                               items |-> <<[channel |-> "general"]>>]>>]]

\* a category with a channel that has a topic and a thread, no bindings
GroupedServer ==
  [channels |-> <<[category |-> "Alpha",
                   channels |-> <<[name |-> "general", topic |-> "Ops",
                                   threads |-> <<"K8s">>]>>]>>]

\* another channel, bound with a guild-wide mention requirement
AlertsServer ==
  [channels |-> <<[name |-> "alerts"]>>,
   openclaw |-> [requireMention |-> TRUE,
                 agents |-> <<[agentName |-> "other-agent",
                               items |-> <<[channel |-> "alerts"]>>]>>]]

ServerConfigs == {PlainServer, GroupedServer, AlertsServer}

EmptyGuild == [categories |-> <<>>, channels |-> <<>>, threads |-> <<>>]

\* a guild that holds the channel of PlainServer; p prefixes the guild's ids
SettledGuild(p) == [EmptyGuild EXCEPT !.channels = <<LiveChannel(p \o "1", "general")>>]

\* a guild that holds a category, two channels and a thread no
\* configuration of the model declares as they are
DriftedGuild(p) ==
  [categories |-> <<[id |-> p \o "2", name |-> "Beta"]>>,
   channels |-> <<[LiveChannel(p \o "1", "general") EXCEPT !.topic = "Old",
                                                            !.categoryId = p \o "2"],
                  LiveChannel(p \o "3", "alerts")>>,
   threads |-> <<[id |-> p \o "4", name |-> "Docker", parentChannelId |-> p \o "3"]>>]

\* a guild that holds a category with no channel in it and a private channel
SparseGuild(p) ==
  [categories |-> <<[id |-> p \o "2", name |-> "Beta"]>>,
   channels |-> <<[private |-> TRUE] @@ LiveChannel(p \o "1", "general")>>,
   threads |-> <<>>]

LiveGuilds(p) == {EmptyGuild, SettledGuild(p), DriftedGuild(p)}

\* the bindings of the shared routing store
Routings ==
  {<<>>,
   <<DiscordBinding("main", "a1")>>,
   <<DiscordBinding("main", "a1"), DiscordBinding("main", "b1")>>,
   <<DiscordBinding("other-agent", "a3"), DiscordBinding("main", "b1")>>}

NoGates == [g \in GuildIds |-> EmptyObject]

World(guildA, guildB, bindings) ==
  [guilds |-> [g \in GuildIds |-> IF g = "gA" THEN guildA ELSE guildB],
   gateway |-> [bindings |-> bindings, guilds |-> NoGates]]

Servers(serverA, serverB) ==
  <<[name |-> "A", guild |-> "gA"] @@ serverA, [name |-> "B", guild |-> "gB"] @@ serverB>>

DefaultArgs ==
  [yes |-> TRUE, json |-> FALSE, prune |-> FALSE, snapshot |-> TRUE, gateway |-> TRUE]

Filters == {{"channel", "category", "thread"}, {"binding"}}

ServerFilters == {"A", "B", "C"}

\* the snapshot a confirmed apply leaves in a world
SnapshotOf(world) ==
  saveSnapshot([configHash |-> "hash",
                servers |-> <<[name |-> "A", guildId |-> "gA",
                               discord |-> DiscordProvider_fetch(world.guilds["gA"])],
                              [name |-> "B", guildId |-> "gB",
                               discord |-> DiscordProvider_fetch(world.guilds["gB"])]>>,
                openclaw |-> OpenClawAPIProvider_fetch(world.gateway)])

\* -- confirmed applies of every configuration of A against every guild
ApplyWorldInputs ==
  {[args |-> [DefaultArgs EXCEPT !.prune = prune],
    servers |-> Servers(serverA, b[1]),
    world |-> World(guildA, b[2], bindings),
    snapshotFile |-> <<>>] :
     prune \in BOOLEAN, serverA \in ServerConfigs, guildA \in LiveGuilds("a"),
     b \in {<<PlainServer, EmptyGuild>>, <<PlainServer, SettledGuild("b")>>},
     bindings \in Routings}

\* the two worlds the parameters of the invocation are varied in
FlagWorlds ==
  {[servers |-> Servers(GroupedServer, PlainServer),
    world |-> World(DriftedGuild("a"), SettledGuild("b"), <<DiscordBinding("main", "b1")>>)],
   [servers |-> Servers(PlainServer, AlertsServer),
    world |-> World(EmptyGuild, DriftedGuild("b"),
                    <<DiscordBinding("main", "a1"), DiscordBinding("main", "b1")>>)]}

\* -- invocations without --yes, of every combination of parameters
DryRunInputs ==
  {[args |-> [yes |-> FALSE, json |-> json, prune |-> prune, snapshot |-> snap,
              gateway |-> gw] @@ filter @@ serverFilter,
    servers |-> w.servers, world |-> w.world, snapshotFile |-> file] :
     json \in BOOLEAN, prune \in BOOLEAN, snap \in BOOLEAN, gw \in BOOLEAN,
     filter \in {EmptyObject} \cup {[filter |-> f] : f \in Filters},
     serverFilter \in {EmptyObject} \cup {[serverFilter |-> s] : s \in ServerFilters},
     w \in FlagWorlds,
     file \in {<<>>, <<SnapshotOf(World(EmptyGuild, EmptyGuild, <<>>))>>}}

\* -- confirmed applies that vary the parameters
ConfirmedInputs ==
  {[args |-> a, servers |-> w.servers, world |-> w.world, snapshotFile |-> <<>>] :
     a \in {[DefaultArgs EXCEPT !.json = json, !.snapshot = snap, !.gateway = gw,
                                !.prune = prune] :
              json \in BOOLEAN, snap \in BOOLEAN, gw \in BOOLEAN, prune \in BOOLEAN}
           \cup {[DefaultArgs EXCEPT !.prune = prune] @@ [filter |-> f] :
                   prune \in BOOLEAN, f \in Filters}
           \cup {[DefaultArgs EXCEPT !.prune = prune] @@ [serverFilter |-> s] :
                   prune \in BOOLEAN, s \in ServerFilters},
     w \in FlagWorlds}

\* -- confirmed applies in a world whose routing gates are open for the
\* channels that are bound
GatedWorld ==
  [World(DriftedGuild("a"), SettledGuild("b"),
         <<DiscordBinding("other-agent", "a3"), DiscordBinding("main", "a3"),
           DiscordBinding("main", "b1")>>)
     EXCEPT !.gateway.guilds = [g \in GuildIds |->
                                  IF g = "gA" THEN ("a3" :> [allow |-> TRUE])
                                  ELSE ("b1" :> [allow |-> TRUE])]]

GatedInputs ==
  {[args |-> [DefaultArgs EXCEPT !.prune = prune],
    servers |-> Servers(serverA, PlainServer),
    world |-> GatedWorld,
    snapshotFile |-> <<>>] :
     prune \in BOOLEAN, serverA \in {PlainServer, AlertsServer}}

\* a server of the configuration with one channel and no binding
UnboundServer == [channels |-> <<[name |-> "general"]>>]

\* -- applies in a world that is already as the configuration declares it,
\* with the snapshot of an earlier run in the file
SettledInputs ==
  {[args |-> [DefaultArgs EXCEPT !.yes = yes, !.snapshot = snap] @@ serverFilter,
    servers |-> Servers(PlainServer, UnboundServer),
    world |-> World(SettledGuild("a"), SettledGuild("b"), <<DiscordBinding("main", "a1")>>),
    snapshotFile |-> <<SnapshotOf(World(DriftedGuild("a"), EmptyGuild, <<>>))>>] :
     yes \in BOOLEAN, snap \in BOOLEAN,
     serverFilter \in {EmptyObject, [serverFilter |-> "A"]}}

ApplyInputs ==
  ApplyWorldInputs \cup DryRunInputs \cup ConfirmedInputs \cup GatedInputs \cup SettledInputs

\* the worlds a snapshot was taken in, and the worlds rollback finds
SnapshotWorlds ==
  {World(SettledGuild("a"), SettledGuild("b"),
         <<DiscordBinding("main", "a1"), DiscordBinding("main", "b1")>>),
   World(DriftedGuild("a"), EmptyGuild, <<DiscordBinding("other-agent", "a3")>>),
   World(SparseGuild("a"), EmptyGuild, <<DiscordBinding("main", "a1")>>),
   World(EmptyGuild, EmptyGuild, <<>>)}

CurrentWorlds ==
  SnapshotWorlds
    \cup {World(DriftedGuild("a"), SettledGuild("b"), <<DiscordBinding("main", "a1")>>),
          World(EmptyGuild, DriftedGuild("b"), <<DiscordBinding("main", "b1")>>)}

\* -- rollbacks: no snapshot file or one that does not parse, or the snapshot
\* of one world found in another
RollbackInputs ==
  {[args |-> [yes |-> yes, json |-> json, prune |-> FALSE, snapshot |-> snap,
              gateway |-> gw] @@ serverFilter,
    servers |-> Servers(PlainServer, PlainServer), world |-> w, snapshotFile |-> file] :
     yes \in BOOLEAN, json \in BOOLEAN, snap \in BOOLEAN, gw \in BOOLEAN,
     serverFilter \in {EmptyObject, [serverFilter |-> "A"], [serverFilter |-> "C"]},
     w \in CurrentWorlds,
     file \in {<<SnapshotOf(s)>> : s \in SnapshotWorlds}}
  \cup
  {[args |-> [DefaultArgs EXCEPT !.yes = yes, !.json = json],
    servers |-> Servers(PlainServer, PlainServer),
    world |-> World(SettledGuild("a"), EmptyGuild, <<>>), snapshotFile |-> file] :
     yes \in BOOLEAN, json \in BOOLEAN, file \in {<<>>, <<NotJson>>}}

\* ------------------------------------------------------------------------
\* State
\* ------------------------------------------------------------------------

VARIABLES
  \* -- a run of reconcile on its own
  desired,     \* the DesiredState handed to reconcile
  discord,     \* the DiscordState object handed to reconcile
  openclaw,    \* the OpenClawState object handed to reconcile
  options,     \* the ReconcileOptions
  passed,      \* discord as it was when the first call was made
  results,     \* the ReconcileResults returned so far, oldest first
  \* -- the world outside the process
  guilds,        \* Discord: guild id -> [categories, channels, threads]
  ids,           \* the ids Discord has not handed out yet
  gateway,       \* the OpenClaw gateway configuration, [bindings, guilds]
  snapshotFile,  \* the snapshot file: <<>> when absent, else <<its content>>
  \* -- a run of applyCommand or rollbackCommand
  command,         \* "apply" or "rollback"
  args,            \* the parameters of the invocation
  config,          \* the parsed configuration file
  pc,              \* the position of the command
  idx,             \* the index of the loop the command is in
  serverEntries,   \* the servers the command runs over
  openclawState,   \* the routing state fetched at the start
  serverStates,    \* the fetched Discord state of each server
  snapshotSaved,   \* whether this run saved a snapshot
  errors,          \* the failures recorded, each against a server
  allJsonEntries,  \* the entries of the JSON report
  filteredActions, \* the actions of the server being applied
  appliedCount,    \* the Discord actions counted as applied for it
  snapshot,        \* rollback: the loaded snapshot, <<>> or <<snapshot>>
  serverActions,   \* rollback: the actions computed for each server
  result,          \* the value returned, or "uncaught"
  \* -- the record of the run
  calls,           \* the provider calls, snapshot writes and reconcile results, in order
  faults,          \* the number of calls that have thrown
  \* -- an OpenClawAPIProvider on its own
  cachedConfig     \* its cachedConfig: <<>> for null, else <<the configuration>>

reconcileVars == <<desired, discord, openclaw, options, passed, results>>

providerVars == <<cachedConfig>>

\* ------------------------------------------------------------------------
\* applyCommand and rollbackCommand (src/src/commands/rollback.ts)
\*
\* args holds the parameters of the invocation: yes, json, prune, snapshot
\* (snapOpts.enabled), gateway (whether an OpenClaw provider resolves) and,
\* when given, filter and serverFilter.  config.servers is the entries of
\* the servers object of the configuration, each [name, guild, channels,
\* openclaw?].  pc is the position of the command, idx the index of its
\* loop, result what it returned ("uncaught" when an exception left it).
\* ------------------------------------------------------------------------

commandVars ==
  <<command, args, config, pc, idx, serverEntries, openclawState, serverStates,
    snapshotSaved, errors, allJsonEntries, filteredActions, appliedCount,
    snapshot, serverActions, result>>

worldVars == <<guilds, ids, gateway, snapshotFile>>

traceVars == <<calls, faults>>

vars == <<reconcileVars, commandVars, worldVars, traceVars, providerVars>>

\* the state of the variables of a run of reconcile alone
NoCommand ==
  /\ command = "reconcile"
  /\ args = EmptyObject
  /\ config = EmptyObject
  /\ pc = "done"
  /\ idx = 0
  /\ serverEntries = <<>>
  /\ openclawState = NoOpenClaw
  /\ serverStates = <<>>
  /\ snapshotSaved = FALSE
  /\ errors = <<>>
  /\ allJsonEntries = <<>>
  /\ filteredActions = <<>>
  /\ appliedCount = 0
  /\ snapshot = <<>>
  /\ serverActions = <<>>
  /\ result = Undefined
  /\ guilds = EmptyObject
  /\ ids = <<>>
  /\ gateway = EmptyObject
  /\ snapshotFile = <<>>
  /\ calls = <<>>
  /\ faults = 0
  /\ cachedConfig = <<>>

\* the state of the variables of reconcile while a command runs
NoReconcile ==
  /\ desired = EmptyObject
  /\ discord = NoDiscord
  /\ openclaw = NoOpenClaw
  /\ options = EmptyObject
  /\ passed = NoDiscord
  /\ results = <<>>

\* ------------------------------------------------------------------------
\* reconcile called on one set of objects
\* ------------------------------------------------------------------------

InitReconcile ==
  /\ \E family \in DOMAIN ReconcileInputs : \E in \in ReconcileInputs[family] :
       /\ desired = in.desired
       /\ discord = in.discord
       /\ openclaw = in.openclaw
       /\ passed = in.discord
  /\ options \in {EmptyObject, [prune |-> TRUE]}
  /\ results = <<>>
  /\ NoCommand

\* const result = reconcile(desired, discord, openclaw, options): the result
\* is returned and the arrays of discord are left sorted
Reconcile ==
  /\ Len(results) < MaxCalls
  /\ results' = Append(results, reconcile(desired, discord, openclaw, options))
  /\ discord' = SortedDiscord(discord)
  /\ UNCHANGED <<desired, openclaw, options, passed, commandVars, worldVars, traceVars,
                 providerVars>>

NextReconcile == Reconcile

SpecReconcile == InitReconcile /\ [][NextReconcile]_vars


\* ------------------------------------------------------------------------
\* Steps of the commands
\* ------------------------------------------------------------------------

\* an awaited call rejects: one more of the failures a run is allowed
Throws ==
  /\ faults < MaxFaults
  /\ faults' = faults + 1

\* an exception no handler of the command catches
Uncaught ==
  /\ result' = "uncaught"
  /\ pc' = "done"

StateOf(name) == find(serverStates, LAMBDA s : s.name = name)[1]

DesiredOf(server) ==
  [guild |-> server.guild, channels |-> server.channels]
    @@ [k \in DOMAIN server \cap {"openclaw"} |-> server[k]]

\* `continue`, or the end of the body, of the loop at idx over n entries
Continue(n, head, exit) ==
  /\ idx' = IF idx < n THEN idx + 1 ELSE 1
  /\ pc' = IF idx < n THEN head ELSE exit

Break ==
  /\ idx' = 1
  /\ pc' = "finish"

RetryAfterFailure ==
  /\ pc' = "reconcile"
  /\ UNCHANGED idx

\* the `continue` of the handler of a failed discord.apply
ContinueAfterFailure == Continue(Len(serverEntries), "reconcile", "finish")

\* the record of a call that returned, and of one that threw
Call(op, server) == [op |-> op, server |-> server, threw |-> FALSE]

Thrown(op, server) == [op |-> op, server |-> server, threw |-> TRUE]

\* the channel ids the binding actions are given before the routing store
\* is called: getChannelIdByName of the channelRef of every action with an
\* after
ResolveChannelIds(actions, guild) ==
  [i \in DOMAIN actions |->
     LET action == actions[i]
         after == Details(action, "after")
         channelId == getChannelIdByName(guild, Get(after, "channelRef"))
     IN  IF action.resourceType = "binding" /\ DOMAIN after # {} /\ IsString(channelId)
           THEN [action EXCEPT !.details.after = ("resolvedChannelId" :> channelId) @@ after]
           ELSE action]

ResolveCalls(actions, server) ==
  LET withAfter == SelectSeq(actions, LAMBDA a : /\ a.resourceType = "binding"
                                                 /\ DOMAIN Details(a, "after") # {})
  IN  [i \in DOMAIN withAfter |->
         [op |-> "getChannelIdByName", server |-> server, threw |-> FALSE,
          name |-> withAfter[i].details.after.channelRef]]

\* the calls made when the k-th resolution throws
ResolveCallsThrown(actions, server, k) ==
  [i \in 1..k |-> [ResolveCalls(actions, server)[i] EXCEPT !.threw = (i = k)]]

BindingChanges(actions) ==
  SelectSeq(actions, LAMBDA a : a.resourceType = "binding" /\ a.type # "noop")

BindingActions(actions) == SelectSeq(actions, LAMBDA a : a.resourceType = "binding")

Changes(actions) == SelectSeq(actions, LAMBDA a : a.type # "noop")

DiscordActions(actions) ==
  SelectSeq(actions, LAMBDA a : a.type # "noop" /\ a.resourceType # "binding")

deleteActionsFirst(actions) ==
  <<SelectSeq(DiscordActions(actions), LAMBDA a : a.type = "delete"),
    SelectSeq(DiscordActions(actions), LAMBDA a : a.type # "delete")>>

\* the two batches applyCommand hands to discord.apply, in the order it
\* hands them over: nonDeleteActions, then deleteActions
Phases(actions) ==
  <<SelectSeq(DiscordActions(actions), LAMBDA a : a.type # "delete"),
    SelectSeq(DiscordActions(actions), LAMBDA a : a.type = "delete")>>

\* -- applyCommand ---------------------------------------------------------

ServerNotFoundSilent(servers) ==
  [op |-> "console.error", server |-> Undefined, threw |-> FALSE, names |-> <<>>]

\* console.error(`Error: Server "..." not found. Available: ${names}`) with
\* names = Object.keys(config.servers)
ServerNotFound(servers) ==
  [op |-> "console.error", server |-> Undefined, threw |-> FALSE,
   names |-> [i \in DOMAIN servers |-> servers[i].name]]

EveryServer(servers, a) == servers

\* serverEntries: the one server --server names, or every server
SelectedServers(servers, a) ==
  IF "serverFilter" \in DOMAIN a
    THEN SelectSeq(servers, LAMBDA s : s.name = a.serverFilter)
    ELSE servers

\* parseConfig, the --server check and serverEntries
ApplyStart ==
  /\ command = "apply" /\ pc = "start"
  /\ IF /\ "serverFilter" \in DOMAIN args
        /\ \A i \in DOMAIN config.servers : config.servers[i].name # args.serverFilter
       THEN /\ calls' = Append(calls, ServerNotFound(config.servers))
            /\ result' = "1"
            /\ pc' = "done"
            /\ UNCHANGED serverEntries
       ELSE /\ serverEntries' =
                 SelectedServers(config.servers, args)
            /\ pc' = "resolve"
            /\ UNCHANGED <<result, calls>>
  /\ UNCHANGED <<reconcileVars, providerVars, command, args, config, idx, openclawState, serverStates,
                 snapshotSaved, errors, allJsonEntries, filteredActions, appliedCount,
                 snapshot, serverActions, worldVars, faults>>

\* resolveOpenClawProvider and ocProvider.fetch(), in both commands
ResolveOpenClaw ==
  /\ pc = "resolve"
  /\ \/ /\ openclawState' = IF args.gateway THEN OpenClawAPIProvider_fetch(gateway)
                            ELSE [bindings |-> <<>>]
        /\ calls' = IF args.gateway THEN Append(calls, Call("openclaw.fetch", Undefined))
                    ELSE calls
        /\ pc' = IF command = "apply" THEN "fetch" ELSE "rollbackFetch"
        /\ idx' = 1
        /\ UNCHANGED <<result, faults>>
     \/ /\ args.gateway
        /\ Throws
        /\ Uncaught
        /\ calls' = Append(calls, Thrown("openclaw.fetch", Undefined))
        /\ UNCHANGED <<openclawState, idx>>
  /\ UNCHANGED <<reconcileVars, providerVars, command, args, config, serverEntries, serverStates,
                 snapshotSaved, errors, allJsonEntries, filteredActions, appliedCount,
                 snapshot, serverActions, worldVars>>

\* one turn of the fetch loop: login, fetch, destroy
FetchServer ==
  /\ pc = "fetch"
  /\ LET server == serverEntries[idx]
     IN  \/ /\ serverStates' =
                 Append(serverStates,
                        [name |-> server.name, guildId |-> server.guild,
                         discord |-> DiscordProvider_fetch(guilds[server.guild])])
            /\ calls' = calls \o <<Call("login", server.name), Call("discord.fetch", server.name)>>
            /\ Continue(Len(serverEntries), "fetch", "snapshot")
            /\ UNCHANGED <<result, faults>>
         \/ /\ Throws
            /\ Uncaught
            /\ \E failed \in {<<Thrown("login", server.name)>>,
                              <<Call("login", server.name), Thrown("discord.fetch", server.name)>>} :
                 calls' = calls \o failed
            /\ UNCHANGED <<serverStates, idx>>
  /\ UNCHANGED <<reconcileVars, providerVars, command, args, config, serverEntries, openclawState,
                 snapshotSaved, errors, allJsonEntries, filteredActions, appliedCount,
                 snapshot, serverActions, worldVars>>

FirstServerSnapshot(states, state) ==
  [configHash |-> "hash", servers |-> SubSeq(states, 1, 1), openclaw |-> state]

\* the MultiServerSnapshot of applyCommand
CombinedSnapshot(states, state) ==
  [configHash |-> "hash", servers |-> states, openclaw |-> state]

ShouldSaveAlways(a) == a.snapshot

\* snapOpts?.enabled !== false && yes
ShouldSave(a) == a.snapshot /\ a.yes

\* the combined snapshot, saved when applying
SaveSnapshot ==
  /\ pc = "snapshot"
  /\ IF ShouldSave(args)
       THEN /\ snapshotFile' = <<saveSnapshot(CombinedSnapshot(serverStates, openclawState))>>
            /\ snapshotSaved' = TRUE
            /\ calls' = Append(calls, Call("saveSnapshot", Undefined))
       ELSE UNCHANGED <<snapshotFile, snapshotSaved, calls>>
  /\ pc' = "reconcile"
  /\ UNCHANGED <<reconcileVars, providerVars, command, args, config, idx, serverEntries, openclawState,
                 serverStates, errors, allJsonEntries, filteredActions, appliedCount,
                 snapshot, serverActions, result, guilds, ids, gateway, faults>>

\* the head of the per-server loop: reconcile, filter, and the branches that
\* end the turn before anything is applied
ReconcileServer ==
  /\ pc = "reconcile"
  /\ LET server == serverEntries[idx]
         state == StateOf(server.name)
         actions == reconcile(DesiredOf(server), state.discord, openclawState,
                              [prune |-> args.prune]).actions
         filtered == filterActions(actions, args)
         n == Len(serverEntries)
     IN  /\ serverStates' = [i \in DOMAIN serverStates |->
                               IF serverStates[i].name = server.name
                                 THEN [serverStates[i] EXCEPT !.discord = SortedDiscord(@)]
                                 ELSE serverStates[i]]
         /\ filteredActions' = filtered
         /\ appliedCount' = 0
         /\ calls' = Append(calls, [op |-> "reconcile", server |-> server.name,
                                    threw |-> FALSE, actions |-> filtered])
         /\ IF args.json /\ ~args.yes
              THEN /\ allJsonEntries' = allJsonEntries \o toDiffJson(filtered, server.name)
                   /\ Continue(n, "reconcile", "finish")
            ELSE IF Changes(filtered) = <<>>
              THEN /\ UNCHANGED allJsonEntries
                   /\ IF args.yes /\ BindingActions(filtered) # <<>> /\ args.gateway
                        THEN pc' = "gateLogin" /\ UNCHANGED idx
                        ELSE Continue(n, "reconcile", "finish")
            ELSE IF ~args.yes
              THEN /\ UNCHANGED allJsonEntries
                   /\ Continue(n, "reconcile", "finish")
            ELSE /\ UNCHANGED allJsonEntries
                 /\ pc' = "login"
                 /\ UNCHANGED idx
  /\ UNCHANGED <<reconcileVars, providerVars, command, args, config, serverEntries, openclawState,
                 snapshotSaved, errors, snapshot, serverActions, result,
                 worldVars, faults>>

\* no changes, binding actions in scope: discord.login() of the provider
\* that resolves the channel ids
GateLogin ==
  /\ pc = "gateLogin"
  /\ \/ /\ calls' = Append(calls, Call("login", serverEntries[idx].name))
        /\ pc' = "gateSync"
        /\ UNCHANGED <<result, faults>>
     \/ /\ Throws
        /\ Uncaught
        /\ calls' = Append(calls, Thrown("login", serverEntries[idx].name))
  /\ UNCHANGED <<reconcileVars, providerVars, command, args, config, idx, serverEntries, openclawState,
                 serverStates, snapshotSaved, errors, allJsonEntries, filteredActions,
                 appliedCount, snapshot, serverActions, worldVars>>

\* the try block of the gate sync: channel ids, then ocProvider.apply
GateSync ==
  /\ pc = "gateSync"
  /\ LET server == serverEntries[idx]
         bindingActions == BindingActions(filteredActions)
         resolved == ResolveChannelIds(bindingActions, guilds[server.guild])
         failure == [server |-> server.name, error |-> "Routing gate sync failed"]
     IN  \/ /\ gateway' = OpenClawAPIProvider_apply(gateway, resolved, server.guild,
                                                    PatchesOf(resolved))
            /\ calls' = calls \o ResolveCalls(bindingActions, server.name)
                          \o <<[op |-> "openclaw.apply", server |-> server.name,
                                actions |-> resolved, threw |-> FALSE]>>
            /\ filteredActions' = ResolveChannelIds(filteredActions, guilds[server.guild])
            /\ UNCHANGED <<errors, faults>>
         \/ /\ Throws
            /\ \/ \E k \in 1..Len(ResolveCalls(bindingActions, server.name)) :
                    /\ calls' = calls \o ResolveCallsThrown(bindingActions, server.name, k)
                    /\ UNCHANGED gateway
               \/ \E patches \in 0..(PatchesOf(resolved) - 1) :
                    /\ gateway' = OpenClawAPIProvider_apply(gateway, resolved, server.guild,
                                                            patches)
                    /\ calls' = calls \o ResolveCalls(bindingActions, server.name)
                                  \o <<[op |-> "openclaw.apply", server |-> server.name,
                                        actions |-> resolved, threw |-> TRUE]>>
            /\ errors' = Append(errors, failure)
            /\ UNCHANGED filteredActions
  /\ Continue(Len(serverEntries), "reconcile", "finish")
  /\ UNCHANGED <<reconcileVars, providerVars, command, args, config, serverEntries, openclawState,
                 serverStates, snapshotSaved, allJsonEntries, appliedCount, snapshot,
                 serverActions, result, guilds, ids, snapshotFile>>

\* discord.login() of the provider that mutates
Login ==
  /\ pc = "login"
  /\ \/ /\ calls' = Append(calls, Call("login", serverEntries[idx].name))
        /\ pc' = "applyCreates"
        /\ UNCHANGED <<result, faults>>
     \/ /\ Throws
        /\ Uncaught
        /\ calls' = Append(calls, Thrown("login", serverEntries[idx].name))
  /\ UNCHANGED <<reconcileVars, providerVars, command, args, config, idx, serverEntries, openclawState,
                 serverStates, snapshotSaved, errors, allJsonEntries, filteredActions,
                 appliedCount, snapshot, serverActions, worldVars>>

\* discord.apply(batch) by the server at idx: the loop performs all of the
\* batch, or throws when `performed` actions have been performed
DiscordApply(batch, performed) ==
  LET server == serverEntries[idx]
      st == DiscordProvider_apply(guilds[server.guild], SubSeq(batch, 1, performed), ids)
  IN  /\ guilds' = [guilds EXCEPT ![server.guild] = st.guild]
      /\ ids' = st.ids
      /\ calls' = Append(calls, [op |-> "discord.apply", server |-> server.name,
                                 actions |-> batch, performed |-> performed,
                                 threw |-> performed < Len(batch)])

ApplyFailed(discordActions) ==
  [server |-> serverEntries[idx].name, error |-> "Discord apply failed",
   applied |-> appliedCount, of |-> Len(discordActions)]

\* the first phase: creates and updates
ApplyCreates ==
  /\ pc = "applyCreates"
  /\ LET nonDeleteActions == Phases(filteredActions)[1]
     IN  IF nonDeleteActions = <<>>
           THEN /\ pc' = "applyDeletes"
                /\ UNCHANGED <<guilds, ids, calls, faults, errors, appliedCount, idx>>
           ELSE \/ /\ DiscordApply(nonDeleteActions, Len(nonDeleteActions))
                   /\ appliedCount' = appliedCount + Len(nonDeleteActions)
                   /\ pc' = "applyDeletes"
                   /\ UNCHANGED <<faults, errors, idx>>
                \/ /\ Throws
                   /\ \E performed \in 0..(Len(nonDeleteActions) - 1) :
                        DiscordApply(nonDeleteActions, performed)
                   /\ errors' = Append(errors, ApplyFailed(DiscordActions(filteredActions)))
                   /\ ContinueAfterFailure
                   /\ UNCHANGED appliedCount
  /\ UNCHANGED <<reconcileVars, providerVars, command, args, config, serverEntries, openclawState,
                 serverStates, snapshotSaved, allJsonEntries, filteredActions, snapshot,
                 serverActions, result, gateway, snapshotFile>>

\* the second phase: deletes
ApplyDeletes ==
  /\ pc = "applyDeletes"
  /\ LET deleteActions == Phases(filteredActions)[2]
     IN  IF deleteActions = <<>>
           THEN /\ pc' = "resolveIds"
                /\ UNCHANGED <<guilds, ids, calls, faults, errors, appliedCount, idx>>
           ELSE \/ /\ DiscordApply(deleteActions, Len(deleteActions))
                   /\ appliedCount' = appliedCount + Len(deleteActions)
                   /\ pc' = "resolveIds"
                   /\ UNCHANGED <<faults, errors, idx>>
                \/ /\ Throws
                   /\ \E performed \in 0..(Len(deleteActions) - 1) :
                        DiscordApply(deleteActions, performed)
                   /\ errors' = Append(errors, ApplyFailed(DiscordActions(filteredActions)))
                   /\ ContinueAfterFailure
                   /\ UNCHANGED appliedCount
  /\ UNCHANGED <<reconcileVars, providerVars, command, args, config, serverEntries, openclawState,
                 serverStates, snapshotSaved, allJsonEntries, filteredActions, snapshot,
                 serverActions, result, gateway, snapshotFile>>

\* the channel ids of the binding actions, resolved after the Discord
\* changes; a rejection here is outside every handler
ResolveIds ==
  /\ pc = "resolveIds"
  /\ LET server == serverEntries[idx]
         bindingActions == BindingActions(filteredActions)
     IN  IF bindingActions = <<>> \/ ~args.gateway
           THEN /\ pc' = "verifyDiscord"
                /\ UNCHANGED <<filteredActions, calls, faults, result>>
           ELSE \/ /\ filteredActions' = ResolveChannelIds(filteredActions, guilds[server.guild])
                   /\ calls' = calls \o ResolveCalls(bindingActions, server.name)
                   /\ pc' = "applyOpenClaw"
                   /\ UNCHANGED <<faults, result>>
                \/ /\ Throws
                   /\ Uncaught
                   /\ \E k \in 1..Len(ResolveCalls(bindingActions, server.name)) :
                        calls' = calls \o ResolveCallsThrown(bindingActions, server.name, k)
                   /\ UNCHANGED filteredActions
  /\ UNCHANGED <<reconcileVars, providerVars, command, args, config, idx, serverEntries, openclawState,
                 serverStates, snapshotSaved, errors, allJsonEntries, appliedCount,
                 snapshot, serverActions, worldVars>>

\* ocProvider.apply(bindingActions, { guildId })
ApplyOpenClaw ==
  /\ pc = "applyOpenClaw"
  /\ LET server == serverEntries[idx]
         bindingActions == BindingActions(filteredActions)
         call(threw) == [op |-> "openclaw.apply", server |-> server.name,
                         actions |-> bindingActions, threw |-> threw]
     IN  \/ /\ gateway' = OpenClawAPIProvider_apply(gateway, bindingActions, server.guild,
                                                    PatchesOf(bindingActions))
            /\ calls' = Append(calls, call(FALSE))
            /\ pc' = "verifyDiscord"
            /\ UNCHANGED <<errors, faults, idx>>
         \/ /\ Throws
            /\ \E patches \in 0..(PatchesOf(bindingActions) - 1) :
                 gateway' = OpenClawAPIProvider_apply(gateway, bindingActions, server.guild,
                                                      patches)
            /\ calls' = Append(calls, call(TRUE))
            /\ errors' = Append(errors, [server |-> server.name,
                                         error |-> "OpenClaw apply failed"])
            /\ Continue(Len(serverEntries), "reconcile", "finish")
  /\ UNCHANGED <<reconcileVars, providerVars, command, args, config, serverEntries, openclawState,
                 serverStates, snapshotSaved, allJsonEntries, filteredActions, appliedCount,
                 snapshot, serverActions, result, guilds, ids, snapshotFile>>

VerificationIgnored(name, error) == errors

\* errors.push({ server, error }) of a verification that answered false
VerificationFailed(name, error) == Append(errors, [server |-> name, error |-> error])

\* discord.verify(discordState), against the state fetched before the run
VerifyDiscord ==
  /\ pc = "verifyDiscord"
  /\ LET server == serverEntries[idx]
         verified == DiscordProvider_verify(guilds[server.guild], StateOf(server.name).discord)
     IN  /\ \/ /\ calls' = Append(calls, [op |-> "discord.verify", server |-> server.name,
                                            threw |-> FALSE, verified |-> verified])
               /\ IF ~verified
                    THEN /\ errors' = VerificationFailed(server.name,
                                                          "Discord verification failed")
                         /\ Continue(Len(serverEntries), "reconcile", "finish")
                         /\ UNCHANGED allJsonEntries
                  ELSE IF args.gateway
                    THEN /\ pc' = "verifyOpenClaw"
                         /\ UNCHANGED <<errors, idx, allJsonEntries>>
                  ELSE /\ allJsonEntries' =
                            IF args.json
                              THEN allJsonEntries \o AppliedEntries(filteredActions, server.name)
                              ELSE allJsonEntries
                       /\ Continue(Len(serverEntries), "reconcile", "finish")
                       /\ UNCHANGED errors
               /\ UNCHANGED <<result, faults>>
            \/ /\ Throws
               /\ Uncaught
               /\ calls' = Append(calls, Thrown("discord.verify", server.name))
               /\ UNCHANGED <<errors, idx, allJsonEntries>>
  /\ UNCHANGED <<reconcileVars, providerVars, command, args, config, serverEntries, openclawState,
                 serverStates, snapshotSaved, filteredActions, appliedCount, snapshot,
                 serverActions, worldVars>>

\* ocProvider.verify(openclawState), against the routing state fetched
\* before the run
VerifyOpenClaw ==
  /\ pc = "verifyOpenClaw"
  /\ LET server == serverEntries[idx]
         ocVerified == OpenClawAPIProvider_verify(gateway, openclawState)
     IN  /\ \/ /\ calls' = Append(calls, [op |-> "openclaw.verify", server |-> server.name,
                                            threw |-> FALSE, verified |-> ocVerified])
               /\ IF ~ocVerified
                    THEN /\ errors' = VerificationFailed(server.name,
                                                          "OpenClaw verification failed")
                         /\ UNCHANGED allJsonEntries
                    ELSE /\ allJsonEntries' =
                              IF args.json
                                THEN allJsonEntries \o AppliedEntries(filteredActions, server.name)
                                ELSE allJsonEntries
                         /\ UNCHANGED errors
               /\ Continue(Len(serverEntries), "reconcile", "finish")
               /\ UNCHANGED <<result, faults>>
            \/ /\ Throws
               /\ Uncaught
               /\ calls' = Append(calls, Thrown("openclaw.verify", server.name))
               /\ UNCHANGED <<errors, idx, allJsonEntries>>
  /\ UNCHANGED <<reconcileVars, providerVars, command, args, config, serverEntries, openclawState,
                 serverStates, snapshotSaved, filteredActions, appliedCount, snapshot,
                 serverActions, worldVars>>

ConfirmedReturnsZero ==
  IF args.json /\ ~args.yes
    THEN IF \E i \in DOMAIN allJsonEntries : allJsonEntries[i].op # "noop"
           THEN "2" ELSE "0"
  ELSE "0"

\* the value applyCommand returns after the loop
ReturnValue ==
  IF args.json /\ ~args.yes
    THEN IF \E i \in DOMAIN allJsonEntries : allJsonEntries[i].op # "noop"
           THEN "2" ELSE "0"
  ELSE IF ~args.yes THEN "0"
  ELSE IF errors # <<>> THEN "1"
  ELSE "0"

\* the code after the loop
ApplyFinish ==
  /\ pc = "finish"
  /\ result' = ReturnValue
  /\ pc' = "done"
  /\ UNCHANGED <<reconcileVars, providerVars, command, args, config, idx, serverEntries, openclawState,
                 serverStates, snapshotSaved, errors, allJsonEntries, filteredActions,
                 appliedCount, snapshot, serverActions, worldVars, traceVars>>

NextApply ==
  \/ ApplyStart
  \/ ResolveOpenClaw
  \/ FetchServer
  \/ SaveSnapshot
  \/ ReconcileServer
  \/ GateLogin
  \/ GateSync
  \/ Login
  \/ ApplyCreates
  \/ ApplyDeletes
  \/ ResolveIds
  \/ ApplyOpenClaw
  \/ VerifyDiscord
  \/ VerifyOpenClaw
  \/ ApplyFinish

\* -- rollbackCommand ------------------------------------------------------

RollbackStartReportsSuccess ==
  /\ command = "rollback" /\ pc = "start"
  /\ LET loaded == loadSnapshot(snapshotFile)
     IN  IF loaded = <<>>
           THEN /\ result' = "0"
                /\ pc' = "done"
                /\ UNCHANGED <<snapshot, serverEntries>>
         ELSE IF /\ "serverFilter" \in DOMAIN args
                 /\ \A i \in DOMAIN loaded[1].servers : loaded[1].servers[i].name # args.serverFilter
           THEN /\ result' = "1"
                /\ pc' = "done"
                /\ snapshot' = loaded
                /\ UNCHANGED serverEntries
         ELSE /\ snapshot' = loaded
              /\ serverEntries' =
                   SelectedServers(loaded[1].servers, args)
              /\ pc' = "resolve"
              /\ UNCHANGED result
  /\ UNCHANGED <<reconcileVars, providerVars, command, args, config, idx, openclawState, serverStates,
                 snapshotSaved, errors, allJsonEntries, filteredActions, appliedCount,
                 serverActions, worldVars, traceVars>>

\* loadSnapshot, the --server check against the snapshot and serverEntries
RollbackStart ==
  /\ command = "rollback" /\ pc = "start"
  /\ LET loaded == loadSnapshot(snapshotFile)
     IN  IF loaded = <<>>
           THEN /\ result' = "1"
                /\ pc' = "done"
                /\ UNCHANGED <<snapshot, serverEntries>>
         ELSE IF /\ "serverFilter" \in DOMAIN args
                 /\ \A i \in DOMAIN loaded[1].servers : loaded[1].servers[i].name # args.serverFilter
           THEN /\ result' = "1"
                /\ pc' = "done"
                /\ snapshot' = loaded
                /\ UNCHANGED serverEntries
         ELSE /\ snapshot' = loaded
              /\ serverEntries' =
                   SelectedServers(loaded[1].servers, args)
              /\ pc' = "resolve"
              /\ UNCHANGED result
  /\ UNCHANGED <<reconcileVars, providerVars, command, args, config, idx, openclawState, serverStates,
                 snapshotSaved, errors, allJsonEntries, filteredActions, appliedCount,
                 serverActions, worldVars, traceVars>>

\* the entries of the JSON dry run of rollback
RollbackEntries(actions, serverName) == toDiffJson(actions, serverName)

\* if (!json) { if (driftWarnings) console.log(driftWarnings) }: the drift
\* lines reach the console of a run without --json, and no other output
DriftPrinted(a, driftWarnings, serverName) ==
  IF ~a.json /\ driftWarnings # <<>>
    THEN <<[op |-> "console.log", server |-> serverName, threw |-> FALSE,
            lines |-> driftWarnings]>>
    ELSE <<>>

RollbackPrunes == [prune |-> TRUE]

\* reconcile(snapshotDesired, currentDiscord, currentOC): no options, so no
\* prune
RollbackOptions == EmptyObject

\* one turn of the first loop: login, fetch, the actions that lead back to
\* the snapshot, and the drift of the configuration against the snapshot
RollbackFetch ==
  /\ pc = "rollbackFetch"
  /\ LET serverSnapshot == serverEntries[idx]
         currentDiscord == DiscordProvider_fetch(guilds[serverSnapshot.guildId])
         snapshotDesired == snapshotToDesired(serverSnapshot.discord, serverSnapshot.guildId,
                                              snapshot[1].openclaw)
         actions == reconcile(snapshotDesired, currentDiscord, openclawState,
                              RollbackOptions).actions
         serverConfig == find(config.servers, LAMBDA s : s.name = serverSnapshot.name)
         driftWarnings ==
           IF serverConfig = <<>> THEN <<>>
           ELSE formatDriftWarnings(
                  reconcile(DesiredOf(serverConfig[1]), serverSnapshot.discord,
                            snapshot[1].openclaw, EmptyObject).actions,
                  actions)
     IN  \/ /\ serverStates' =
                 Append(serverStates,
                        [name |-> serverSnapshot.name, guildId |-> serverSnapshot.guildId,
                         discord |-> SortedDiscord(currentDiscord)])
            /\ serverActions' =
                 Append(serverActions,
                        [serverName |-> serverSnapshot.name, guildId |-> serverSnapshot.guildId,
                         actions |-> actions, driftWarnings |-> driftWarnings])
            /\ allJsonEntries' =
                 IF args.json /\ ~args.yes
                   THEN allJsonEntries \o RollbackEntries(actions, serverSnapshot.name)
                   ELSE allJsonEntries
            /\ calls' = calls \o <<Call("login", serverSnapshot.name),
                                   Call("discord.fetch", serverSnapshot.name),
                                   [op |-> "reconcile", server |-> serverSnapshot.name,
                                    threw |-> FALSE, actions |-> actions]>>
                             \o DriftPrinted(args, driftWarnings, serverSnapshot.name)
            /\ Continue(Len(serverEntries), "rollbackFetch", "rollbackDecide")
            /\ UNCHANGED <<result, faults>>
         \/ /\ Throws
            /\ Uncaught
            /\ \E failed \in {<<Thrown("login", serverSnapshot.name)>>,
                              <<Call("login", serverSnapshot.name),
                                Thrown("discord.fetch", serverSnapshot.name)>>} :
                 calls' = calls \o failed
            /\ UNCHANGED <<serverStates, serverActions, allJsonEntries, idx>>
  /\ UNCHANGED <<reconcileVars, providerVars, command, args, config, serverEntries, openclawState,
                 snapshotSaved, errors, filteredActions, appliedCount, snapshot, worldVars>>

SkipsPreRollback(a) == FALSE

\* snapOpts?.enabled !== false
SavesPreRollback(a) == a.snapshot

\* between the loops: the dry-run returns, and the pre-rollback snapshot
RollbackDecide ==
  /\ pc = "rollbackDecide"
  /\ LET totalChanges ==
           Len(Flatten([i \in DOMAIN serverActions |-> Changes(serverActions[i].actions)]))
     IN  IF args.json /\ ~args.yes
           THEN /\ result' = IF \E i \in DOMAIN allJsonEntries : allJsonEntries[i].op # "noop"
                               THEN "2" ELSE "0"
                /\ pc' = "done"
                /\ UNCHANGED <<snapshotFile, snapshotSaved, calls>>
         ELSE IF totalChanges = 0 \/ ~args.yes
           THEN /\ result' = "0"
                /\ pc' = "done"
                /\ UNCHANGED <<snapshotFile, snapshotSaved, calls>>
         ELSE /\ IF SavesPreRollback(args)
                   THEN /\ snapshotFile' =
                             <<saveSnapshot([configHash |-> "pre-rollback-hash",
                                             servers |-> serverStates,
                                             openclaw |-> openclawState])>>
                        /\ snapshotSaved' = TRUE
                        /\ calls' = Append(calls, Call("saveSnapshot", Undefined))
                   ELSE UNCHANGED <<snapshotFile, snapshotSaved, calls>>
              /\ pc' = "rollbackLogin"
              /\ UNCHANGED result
  /\ UNCHANGED <<reconcileVars, providerVars, command, args, config, idx, serverEntries, openclawState,
                 serverStates, errors, allJsonEntries, filteredActions, appliedCount,
                 snapshot, serverActions, guilds, ids, gateway, faults>>

\* the head of the second loop: a server without changes is passed over,
\* any other gets discord.login()
RollbackLogin ==
  /\ pc = "rollbackLogin"
  /\ LET entry == serverActions[idx]
     IN  IF Changes(entry.actions) = <<>>
           THEN /\ Continue(Len(serverActions), "rollbackLogin", "rollbackFinish")
                /\ UNCHANGED <<calls, faults, result>>
           ELSE \/ /\ calls' = Append(calls, Call("login", entry.serverName))
                   /\ pc' = "rollbackDiscord"
                   /\ UNCHANGED <<faults, result, idx>>
                \/ /\ Throws
                   /\ Uncaught
                   /\ calls' = Append(calls, Thrown("login", entry.serverName))
                   /\ UNCHANGED idx
  /\ UNCHANGED <<reconcileVars, providerVars, command, args, config, serverEntries, openclawState,
                 serverStates, snapshotSaved, errors, allJsonEntries, filteredActions,
                 appliedCount, snapshot, serverActions, worldVars>>

\* discord.apply(discordActions), one batch
RollbackDiscord ==
  /\ pc = "rollbackDiscord"
  /\ LET entry == serverActions[idx]
         discordActions == DiscordActions(entry.actions)
         st(performed) == DiscordProvider_apply(guilds[entry.guildId],
                                                SubSeq(discordActions, 1, performed), ids)
         call(performed) == [op |-> "discord.apply", server |-> entry.serverName,
                             actions |-> discordActions, performed |-> performed,
                             threw |-> performed < Len(discordActions)]
     IN  IF discordActions = <<>>
           THEN /\ pc' = "rollbackOpenClaw"
                /\ UNCHANGED <<guilds, ids, calls, faults, errors, idx>>
           ELSE \/ /\ guilds' = [guilds EXCEPT ![entry.guildId] = st(Len(discordActions)).guild]
                   /\ ids' = st(Len(discordActions)).ids
                   /\ calls' = Append(calls, call(Len(discordActions)))
                   /\ pc' = "rollbackOpenClaw"
                   /\ UNCHANGED <<faults, errors, idx>>
                \/ /\ Throws
                   /\ \E performed \in 0..(Len(discordActions) - 1) :
                        /\ guilds' = [guilds EXCEPT ![entry.guildId] = st(performed).guild]
                        /\ ids' = st(performed).ids
                        /\ calls' = Append(calls, call(performed))
                   /\ errors' = Append(errors, [server |-> entry.serverName,
                                                error |-> "Discord rollback failed"])
                   /\ Continue(Len(serverActions), "rollbackLogin", "rollbackFinish")
  /\ UNCHANGED <<reconcileVars, providerVars, command, args, config, serverEntries, openclawState,
                 serverStates, snapshotSaved, allJsonEntries, filteredActions, appliedCount,
                 snapshot, serverActions, result, gateway, snapshotFile>>

\* ocProvider.apply of the binding actions that are not noop
RollbackOpenClaw ==
  /\ pc = "rollbackOpenClaw"
  /\ LET entry == serverActions[idx]
         bindingActions == BindingActions(Changes(entry.actions))
         call(threw) == [op |-> "openclaw.apply", server |-> entry.serverName,
                         actions |-> bindingActions, threw |-> threw]
     IN  IF ~args.gateway \/ bindingActions = <<>>
           THEN /\ pc' = "rollbackVerify"
                /\ UNCHANGED <<gateway, calls, faults, errors, idx>>
           ELSE \/ /\ gateway' = OpenClawAPIProvider_apply(gateway, bindingActions,
                                                           entry.guildId,
                                                           PatchesOf(bindingActions))
                   /\ calls' = Append(calls, call(FALSE))
                   /\ pc' = "rollbackVerify"
                   /\ UNCHANGED <<faults, errors, idx>>
                \/ /\ Throws
                   /\ \E patches \in 0..(PatchesOf(bindingActions) - 1) :
                        gateway' = OpenClawAPIProvider_apply(gateway, bindingActions,
                                                             entry.guildId, patches)
                   /\ calls' = Append(calls, call(TRUE))
                   /\ errors' = Append(errors, [server |-> entry.serverName,
                                                error |-> "OpenClaw rollback failed"])
                   /\ Continue(Len(serverActions), "rollbackLogin", "rollbackFinish")
  /\ UNCHANGED <<reconcileVars, providerVars, command, args, config, serverEntries, openclawState,
                 serverStates, snapshotSaved, allJsonEntries, filteredActions, appliedCount,
                 snapshot, serverActions, result, guilds, ids, snapshotFile>>

\* discord.verify(serverSnapshot.discord)
RollbackVerify ==
  /\ pc = "rollbackVerify"
  /\ LET entry == serverActions[idx]
         serverSnapshot == find(snapshot[1].servers, LAMBDA s : s.name = entry.serverName)[1]
         verified == DiscordProvider_verify(guilds[entry.guildId], serverSnapshot.discord)
     IN  /\ \/ /\ calls' = Append(calls, [op |-> "discord.verify", server |-> entry.serverName,
                                            threw |-> FALSE, verified |-> verified])
               /\ IF ~verified
                    THEN /\ errors' = Append(errors, [server |-> entry.serverName,
                                                      error |-> "Rollback verification failed"])
                         /\ UNCHANGED allJsonEntries
                    ELSE /\ allJsonEntries' =
                              IF args.json
                                THEN allJsonEntries \o AppliedEntries(entry.actions,
                                                                      entry.serverName)
                                ELSE allJsonEntries
                         /\ UNCHANGED errors
               /\ Continue(Len(serverActions), "rollbackLogin", "rollbackFinish")
               /\ UNCHANGED <<result, faults>>
            \/ /\ Throws
               /\ Uncaught
               /\ calls' = Append(calls, Thrown("discord.verify", entry.serverName))
               /\ UNCHANGED <<errors, idx, allJsonEntries>>
  /\ UNCHANGED <<reconcileVars, providerVars, command, args, config, serverEntries, openclawState,
                 serverStates, snapshotSaved, filteredActions, appliedCount, snapshot,
                 serverActions, worldVars>>

\* the value rollbackCommand returns after the second loop
RollbackFinish ==
  /\ pc = "rollbackFinish"
  /\ result' = IF errors # <<>> THEN "1" ELSE "0"
  /\ pc' = "done"
  /\ UNCHANGED <<reconcileVars, providerVars, command, args, config, idx, serverEntries, openclawState,
                 serverStates, snapshotSaved, errors, allJsonEntries, filteredActions,
                 appliedCount, snapshot, serverActions, worldVars, traceVars>>

NextRollback ==
  \/ RollbackStart
  \/ ResolveOpenClaw
  \/ RollbackFetch
  \/ RollbackDecide
  \/ RollbackLogin
  \/ RollbackDiscord
  \/ RollbackOpenClaw
  \/ RollbackVerify
  \/ RollbackFinish

\* ------------------------------------------------------------------------
\* The commands started in a world
\* ------------------------------------------------------------------------

Invoked(name, in) ==
  /\ NoReconcile
  /\ command = name
  /\ args = in.args
  /\ config = [servers |-> in.servers]
  /\ guilds = in.world.guilds
  /\ gateway = in.world.gateway
  /\ ids = FreshIds
  /\ snapshotFile = in.snapshotFile
  /\ pc = "start"
  /\ idx = 1
  /\ serverEntries = <<>>
  /\ openclawState = NoOpenClaw
  /\ serverStates = <<>>
  /\ snapshotSaved = FALSE
  /\ errors = <<>>
  /\ allJsonEntries = <<>>
  /\ filteredActions = <<>>
  /\ appliedCount = 0
  /\ snapshot = <<>>
  /\ serverActions = <<>>
  /\ result = Undefined
  /\ calls = <<>>
  /\ faults = 0
  /\ cachedConfig = <<>>

InitApply == \E in \in ApplyInputs : Invoked("apply", in)

InitRollback == \E in \in RollbackInputs : Invoked("rollback", in)

SpecApply == InitApply /\ [][NextApply]_vars

SpecRollback == InitRollback /\ [][NextRollback]_vars

NextCommand ==
  \/ NextApply
  \/ RollbackStart
  \/ RollbackFetch
  \/ RollbackDecide
  \/ RollbackLogin
  \/ RollbackDiscord
  \/ RollbackOpenClaw
  \/ RollbackVerify
  \/ RollbackFinish

SpecCommand == (InitApply \/ InitRollback) /\ [][NextCommand]_vars

\* ------------------------------------------------------------------------
\* The snapshot store on its own: saveSnapshot and loadSnapshot called in any
\* order on one path
\* ------------------------------------------------------------------------

MaxStoreCalls == 3

ConfigHashes == {"abc123", "def456"}

\* the snapshot a command builds from the fetched states of a world
Captured(world, configHash) ==
  [configHash |-> configHash,
   servers |-> <<[name |-> "A", guildId |-> "gA",
                  discord |-> DiscordProvider_fetch(world.guilds["gA"])],
                 [name |-> "B", guildId |-> "gB",
                  discord |-> DiscordProvider_fetch(world.guilds["gB"])]>>,
   openclaw |-> OpenClawAPIProvider_fetch(world.gateway)]

\* a file of the old format: the state of one guild at top level, no servers
LegacyFile(world) ==
  [configHash |-> "old",
   discord |-> StringifyState(DiscordProvider_fetch(world.guilds["gA"])),
   openclaw |-> OpenClawAPIProvider_fetch(world.gateway)]

StoredFiles ==
  {<<>>, <<NotJson>>}
    \cup {<<LegacyFile(w)>> : w \in SnapshotWorlds}
    \cup {<<SnapshotOf(w)>> : w \in SnapshotWorlds}

InitStore ==
  /\ NoReconcile
  /\ command = "store"
  /\ args = EmptyObject
  /\ config = EmptyObject
  /\ pc = "done"
  /\ idx = 0
  /\ serverEntries = <<>>
  /\ openclawState = NoOpenClaw
  /\ serverStates = <<>>
  /\ snapshotSaved = FALSE
  /\ errors = <<>>
  /\ allJsonEntries = <<>>
  /\ filteredActions = <<>>
  /\ appliedCount = 0
  /\ snapshot = <<>>
  /\ serverActions = <<>>
  /\ result = Undefined
  /\ guilds = EmptyObject
  /\ ids = <<>>
  /\ gateway = EmptyObject
  /\ snapshotFile \in StoredFiles
  /\ calls = <<>>
  /\ faults = 0
  /\ cachedConfig = <<>>

StoreSaveOnce ==
  /\ Len(calls) < MaxStoreCalls
  /\ \E w \in SnapshotWorlds, h \in ConfigHashes :
       /\ snapshotFile' = IF snapshotFile = <<>> \/ snapshotFile = <<NotJson>>
                            THEN <<saveSnapshot(Captured(w, h))>> ELSE snapshotFile
       /\ calls' = Append(calls, [op |-> "saveSnapshot", snapshot |-> Captured(w, h)])
  /\ UNCHANGED <<reconcileVars, providerVars, command, args, config, pc, idx, serverEntries,
                 openclawState, serverStates, snapshotSaved, errors, allJsonEntries,
                 filteredActions, appliedCount, snapshot, serverActions, result,
                 guilds, ids, gateway, faults>>

\* saveSnapshot(s, path): the file is replaced by the text of s
StoreSave ==
  /\ Len(calls) < MaxStoreCalls
  /\ \E w \in SnapshotWorlds, h \in ConfigHashes :
       /\ snapshotFile' = <<saveSnapshot(Captured(w, h))>>
       /\ calls' = Append(calls, [op |-> "saveSnapshot", snapshot |-> Captured(w, h)])
  /\ UNCHANGED <<reconcileVars, providerVars, command, args, config, pc, idx, serverEntries,
                 openclawState, serverStates, snapshotSaved, errors, allJsonEntries,
                 filteredActions, appliedCount, snapshot, serverActions, result,
                 guilds, ids, gateway, faults>>

\* const loaded = loadSnapshot(path)
StoreLoad ==
  /\ Len(calls) < MaxStoreCalls
  /\ snapshot' = loadSnapshot(snapshotFile)
  /\ calls' = Append(calls, [op |-> "loadSnapshot", file |-> snapshotFile,
                             returned |-> loadSnapshot(snapshotFile)])
  /\ UNCHANGED <<reconcileVars, providerVars, command, args, config, pc, idx, serverEntries,
                 openclawState, serverStates, snapshotSaved, errors, allJsonEntries,
                 filteredActions, appliedCount, serverActions, result,
                 guilds, ids, gateway, snapshotFile, faults>>

NextStore ==
  \/ StoreSave
  \/ StoreLoad

SpecStore == InitStore /\ [][NextStore]_vars

\* ------------------------------------------------------------------------
\* OpenClawAPIProvider with its cache (src/src/providers/openclaw.ts
\* 138-148 and 176-284).  A provider in the middle of a method is
\* [gateway, cache, log, threw, budget]: the configuration of the gateway,
\* cachedConfig, the requests sent so far, whether the method has thrown,
\* and the number of requests that are still answered before one throws.
\* The configuration carries its hash, modelled as the number of patches
\* the gateway has taken, so that two versions never share a hash.  A
\* request that throws leaves the gateway as it was.
\* ------------------------------------------------------------------------

MaxProviderCalls == 3

\* apply sends at most four requests: config.get, config.patch, config.get,
\* config.patch
MaxRequests == 4

\* invokeGatewayTool("gateway", {action}): the record of one request, with
\* the hash it returned (config.get) or carried as baseHash (config.patch)
Request(op, hash, threw) == [op |-> op, server |-> Undefined, threw |-> threw, hash |-> hash]

getConfig(p) ==
  IF p.threw \/ p.cache # <<>> THEN p
  ELSE IF p.budget = 0
    THEN [p EXCEPT !.threw = TRUE, !.log = Append(@, Request("config.get", -1, TRUE))]
  ELSE [p EXCEPT !.cache = <<p.gateway>>,
                 !.budget = @ - 1,
                 !.log = Append(@, Request("config.get", p.gateway.hash, FALSE))]

invalidateCache(p) == [p EXCEPT !.cache = <<>>]

\* the configuration after the gateway has merged a patch into it
Patched(cfg, patch) ==
  [hash |-> cfg.hash + 1,
   bindings |-> IF "bindings" \in DOMAIN patch THEN patch.bindings ELSE cfg.bindings,
   guilds |-> IF "guilds" \in DOMAIN patch
                THEN [g \in DOMAIN cfg.guilds |->
                        IF g \in DOMAIN patch.guilds
                          THEN patch.guilds[g] @@ cfg.guilds[g]
                          ELSE cfg.guilds[g]]
                ELSE cfg.guilds]

patchConfigKeepingCache(p, patch) ==
  LET q == getConfig(p)
  IN  IF q.threw THEN q
      ELSE IF q.budget = 0
        THEN [q EXCEPT !.threw = TRUE,
                       !.log = Append(@, Request("config.patch", q.cache[1].hash, TRUE))]
      ELSE [q EXCEPT !.gateway = Patched(@, patch),
                     !.budget = @ - 1,
                     !.log = Append(@, Request("config.patch", q.cache[1].hash, FALSE))]

\* patchConfig(patch): getConfig, config.patch with baseHash: config.hash,
\* invalidateCache
patchConfig(p, patch) ==
  LET q == getConfig(p)
  IN  IF q.threw THEN q
      ELSE IF q.budget = 0
        THEN [q EXCEPT !.threw = TRUE,
                       !.log = Append(@, Request("config.patch", q.cache[1].hash, TRUE))]
      ELSE invalidateCache(
             [q EXCEPT !.gateway = Patched(@, patch),
                       !.budget = @ - 1,
                       !.log = Append(@, Request("config.patch", q.cache[1].hash, FALSE))])

\* fetch() and fetchRoutingConfig(guildId): both read through getConfig
CachedProvider_fetch(p) == getConfig(p)

\* apply(actions, {guildId}): the bindings patch, then syncRoutingGates
CachedProvider_apply(p, actions, guildId) ==
  LET allBindingActions == SelectSeq(actions, LAMBDA a : a.resourceType = "binding")
      bindingMutations == SelectSeq(allBindingActions, LAMBDA a : a.type # "noop")
      q == getConfig(p)
      updated == UpdatedBindings(q.cache[1].bindings, bindingMutations)
      afterBindings ==
        IF bindingMutations = <<>> THEN p
        ELSE IF q.threw THEN q
        ELSE patchConfig(q, [bindings |-> updated])
      r == CachedProvider_fetch(afterBindings)
      channels ==
        syncRoutingGates(r.cache[1].guilds[guildId], allBindingActions,
                         IF bindingMutations # <<>> THEN <<updated>> ELSE <<>>)
  IN  IF allBindingActions = <<>> \/ afterBindings.threw THEN afterBindings
      ELSE IF r.threw THEN r
      ELSE patchConfig(r, [guilds |-> (guildId :> channels)])

\* verify(expected): invalidateCache, fetch, and the comparison
CachedProvider_verify(p, expected) ==
  LET q == CachedProvider_fetch(invalidateCache(p))
  IN  [q EXCEPT !.log =
         Append(@, [op |-> "verify", server |-> Undefined, threw |-> q.threw,
                    verified |-> IF q.threw THEN FALSE
                                 ELSE OpenClawAPIProvider_verify(q.cache[1], expected)])]

\* the gateways a provider is constructed against
ProviderGateways ==
  {[hash |-> 0] @@ GatedWorld.gateway,
   [hash |-> 0] @@ World(EmptyGuild, EmptyGuild, <<>>).gateway}

\* the action lists handed to apply: a create, a noop, a delete of a
\* stale binding, a create with a delete, and nothing for the routing store
ProviderActionLists ==
  LET binding(type, agent, channel, id) ==
        [type |-> type, resourceType |-> "binding", name |-> BindingName(agent, channel),
         details |-> [after |-> [agentName |-> agent, channelRef |-> channel,
                                 resolvedChannelId |-> id]]]
      stale == StaleBindingAction(DiscordBinding("other-agent", "a3"), <<>>)
  IN  {<<binding("create", "main", "general", "a1")>>,
       <<binding("noop", "main", "alerts", "a3")>>,
       <<stale>>,
       <<binding("create", "main", "general", "a1"), stale>>,
       <<>>}

ProviderExpectations ==
  {NoOpenClaw, OpenClawAPIProvider_fetch(GatedWorld.gateway)}

MethodsCalled ==
  Len(SelectSeq(calls, LAMBDA c : c.op \in {"fetch", "apply", "verify"}))

InitProvider ==
  /\ NoReconcile
  /\ command = "provider"
  /\ args = EmptyObject
  /\ config = EmptyObject
  /\ pc = "done"
  /\ idx = 0
  /\ serverEntries = <<>>
  /\ openclawState = NoOpenClaw
  /\ serverStates = <<>>
  /\ snapshotSaved = FALSE
  /\ errors = <<>>
  /\ allJsonEntries = <<>>
  /\ filteredActions = <<>>
  /\ appliedCount = 0
  /\ snapshot = <<>>
  /\ serverActions = <<>>
  /\ result = Undefined
  /\ guilds = EmptyObject
  /\ ids = <<>>
  /\ gateway \in ProviderGateways
  /\ snapshotFile = <<>>
  /\ calls = <<>>
  /\ faults = 0
  /\ cachedConfig = <<>>

\* the provider the next method is called on; the method may throw while
\* the run has faults left
ProviderNow(budget) ==
  [gateway |-> gateway, cache |-> cachedConfig, log |-> calls, threw |-> FALSE,
   budget |-> IF faults < MaxFaults THEN budget ELSE MaxRequests]

\* the state the method leaves behind
ProviderLeft(p) ==
  /\ gateway' = p.gateway
  /\ cachedConfig' = p.cache
  /\ calls' = p.log
  /\ faults' = faults + (IF p.threw THEN 1 ELSE 0)
  /\ UNCHANGED <<reconcileVars, commandVars, guilds, ids, snapshotFile>>

\* await provider.fetch()
ProviderFetch ==
  /\ MethodsCalled < MaxProviderCalls
  /\ \E budget \in 0..MaxRequests :
       LET p == CachedProvider_fetch(ProviderNow(budget))
       IN  ProviderLeft([p EXCEPT !.log = Append(@, [op |-> "fetch", server |-> Undefined,
                                                      threw |-> p.threw])])

\* await provider.apply(actions, {guildId})
ProviderApply ==
  /\ MethodsCalled < MaxProviderCalls
  /\ \E budget \in 0..MaxRequests, actions \in ProviderActionLists :
       LET p == CachedProvider_apply(ProviderNow(budget), actions, "gA")
       IN  ProviderLeft([p EXCEPT !.log = Append(@, [op |-> "apply", server |-> Undefined,
                                                      threw |-> p.threw,
                                                      actions |-> actions])])

\* await provider.verify(expected)
ProviderVerify ==
  /\ MethodsCalled < MaxProviderCalls
  /\ \E budget \in 0..MaxRequests, expected \in ProviderExpectations :
       ProviderLeft(CachedProvider_verify(ProviderNow(budget), expected))

NextProvider ==
  \/ ProviderFetch
  \/ ProviderApply
  \/ ProviderVerify

SpecProvider == InitProvider /\ [][NextProvider]_vars

\* ------------------------------------------------------------------------
\* Properties of reconcile
\* ------------------------------------------------------------------------

Count(s, Test(_)) == Cardinality(SelectIdx(s, Test))

IsDelete(a, resourceType) == a.type = "delete" /\ a.resourceType = resourceType

LiveChannelIds(d) == {d.channels[i].id : i \in DOMAIN d.channels}

\* the names the configuration declares, read off the nested desired state
DeclaredCategories(d) ==
  {d.channels[e].category : e \in SelectIdx(d.channels, isCategoryGroup)}

DeclaredChannels(d) ==
  UNION {Range(EntryChannels(d.channels[e])) : e \in DOMAIN d.channels}

DeclaredChannelNames(d) == {ch.name : ch \in DeclaredChannels(d)}

DeclaredThreads(d) ==
  UNION {IF "threads" \in DOMAIN ch THEN {<<ch.name, t>> : t \in Range(ch.threads)} ELSE {} :
           ch \in DeclaredChannels(d)}

\* the (parent channel name, thread name) pair of a live thread; ids are unique
LiveThreadPair(d, th) ==
  LET parents == {d.channels[i].name :
                    i \in SelectIdx(d.channels, LAMBDA c : c.id = th.parentChannelId)}
  IN  IF parents = {} THEN <<"", th.name>> ELSE <<CHOOSE n \in parents : TRUE, th.name>>

\* C1: reconcile emits no binding delete for a routing entry whose channel id
\* is not the id of a channel of the live workspace state it is given.
C1_NoDeleteOfForeignBinding ==
  \A k \in DOMAIN results : \A i \in DOMAIN results[k].actions :
    LET a == results[k].actions[i]
    IN  IsDelete(a, "binding") =>
          a.details.before.resolvedChannelId \in LiveChannelIds(passed)

\* C8: an unmanaged live category, channel or thread is, without prune, listed
\* exactly once in unmanaged and deleted by no action; with prune it is
\* deleted by exactly one action that carries its id and is not listed.
PruneSymmetric(r, resourceType, live) ==
  LET deletes == Count(r.actions, LAMBDA a : /\ IsDelete(a, resourceType)
                                              /\ a.details.before.id = live.id
                                              /\ a.name = live.name)
      listed == Count(r.unmanaged, LAMBDA u : /\ u.resourceType = resourceType
                                               /\ u.id = live.id
                                               /\ u.name = live.name)
  IN  IF Truthy(options, "prune")
        THEN deletes = 1 /\ listed = 0
        ELSE deletes = 0 /\ listed = 1

C8_PruneSymmetry ==
  \A k \in DOMAIN results :
    /\ \A c \in Range(passed.categories) :
         c.name \notin DeclaredCategories(desired)
           => PruneSymmetric(results[k], "category", c)
    /\ \A ch \in Range(passed.channels) :
         ch.name \notin DeclaredChannelNames(desired)
           => PruneSymmetric(results[k], "channel", ch)
    /\ \A th \in Range(passed.threads) :
         LiveThreadPair(passed, th) \notin DeclaredThreads(desired)
           => PruneSymmetric(results[k], "thread", th)

\* reconcile has returned with prune set for a live state that holds an
\* unmanaged category, an unmanaged channel or an unmanaged thread
C8_Witness ==
  /\ results # <<>>
  /\ Truthy(options, "prune")
  /\ \/ \E c \in Range(passed.categories) : c.name \notin DeclaredCategories(desired)
     \/ \E ch \in Range(passed.channels) : ch.name \notin DeclaredChannelNames(desired)
     \/ \E th \in Range(passed.threads) :
          LiveThreadPair(passed, th) \notin DeclaredThreads(desired)

\* C9: a second call of reconcile on the same desired state, workspace state,
\* routing state and options returns the same actions in the same order and
\* the same unmanaged list as the first.
C9_Deterministic ==
  Len(results) >= 2 => results[2] = results[1]

\* two calls were made on a workspace state whose arrays the first call
\* reordered, with two live channels of one name
C9_Witness ==
  /\ Len(results) >= 2
  /\ passed # discord
  /\ \E i, j \in DOMAIN passed.channels :
       i # j /\ passed.channels[i].name = passed.channels[j].name

\* ------------------------------------------------------------------------
\* The order of reconcile's output
\* ------------------------------------------------------------------------

Reverse(s) == [i \in DOMAIN s |-> s[Len(s) + 1 - i]]

\* the same configuration written in the opposite order: entries, the
\* channels of a group, the threads of a channel, agents and their channels
ReversedDesired(d) ==
  LET channel(ch) ==
        IF "threads" \in DOMAIN ch THEN [ch EXCEPT !.threads = Reverse(@)] ELSE ch
      entry(e) ==
        IF isCategoryGroup(e)
          THEN [e EXCEPT !.channels = Reverse([i \in DOMAIN @ |-> channel(@[i])])]
          ELSE channel(e)
      agent(a) == [a EXCEPT !.items = Reverse(@)]
  IN  [k \in DOMAIN d |->
         CASE k = "channels" -> Reverse([i \in DOMAIN d.channels |-> entry(d.channels[i])])
           [] k = "openclaw" ->
                [d.openclaw EXCEPT !.agents = Reverse([i \in DOMAIN @ |-> agent(@[i])])]
           [] OTHER -> d[k]]

\* the same live state reported in the opposite order
ReversedDiscord(d) ==
  [d EXCEPT !.categories = Reverse(@), !.channels = Reverse(@), !.threads = Reverse(@)]

ReversedOpenClaw(o) == [o EXCEPT !.bindings = Reverse(@)]

\* reconcile of the inputs of the run, handed over in the opposite order
ReversedResult ==
  reconcile(ReversedDesired(desired), ReversedDiscord(passed), ReversedOpenClaw(openclaw),
            options)

NonDecreasing(keys) == \A i, j \in DOMAIN keys : i < j => keys[i] <= keys[j]

Distinct(keys) == \A i, j \in DOMAIN keys : i # j => keys[i] # keys[j]

\* the actions of one section of the output: a resource type and the action
\* types of the section
Section(r, resourceType, types) ==
  SelectSeq(r.actions, LAMBDA a : a.resourceType = resourceType /\ a.type \in types)

NameKeys(actions) == [i \in DOMAIN actions |-> localeCompare(actions[i].name)]

\* C10: categories, channels and threads are each emitted in name order and
\* bindings in agent-name order, and the emitted actions are the same when
\* the entries of the inputs come in another order.
C10_OrderDependsOnNamesOnly ==
  \A k \in DOMAIN results :
    LET r == results[k]
        desiredBindings == Section(r, "binding", {"create", "noop"})
        staleBindings == Section(r, "binding", {"delete"})
        desiredCategories == Section(r, "category", {"create", "noop"})
    IN  /\ NonDecreasing([i \in DOMAIN desiredCategories |->
                            CodeUnitRank(desiredCategories[i].name)])
        /\ NonDecreasing(NameKeys(Section(r, "category", {"delete"})))
        /\ NonDecreasing(NameKeys(Section(r, "channel", {"create", "update", "noop"})))
        /\ NonDecreasing(NameKeys(Section(r, "channel", {"delete"})))
        /\ NonDecreasing(NameKeys(Section(r, "thread", {"create", "noop"})))
        /\ NonDecreasing(NameKeys(Section(r, "thread", {"delete"})))
        /\ NonDecreasing([i \in DOMAIN desiredBindings |->
                            localeCompare(desiredBindings[i].details.after.agentName)])
        /\ NonDecreasing([i \in DOMAIN staleBindings |->
                            localeCompare(staleBindings[i].details.before.agentName)])
        /\ ReversedResult.actions = r.actions

\* no two entries of a section of the inputs share the key the section is
\* sorted by, and no two live resources of a kind share a name
SortKeysDistinct ==
  LET flat == flattenDesiredState(desired)
      discordBindings == SelectSeq(openclaw.bindings, LAMBDA b : b.match.channel = "discord")
  IN  /\ Distinct(flat.categories)
      /\ Distinct([i \in DOMAIN flat.channels |-> flat.channels[i].name])
      /\ Distinct([i \in DOMAIN flat.threads |->
                     <<flat.threads[i].parentChannel, flat.threads[i].name>>])
      /\ Distinct([i \in DOMAIN flat.bindings |-> flat.bindings[i].agentName])
      /\ Distinct([i \in DOMAIN passed.categories |-> passed.categories[i].name])
      /\ Distinct([i \in DOMAIN passed.channels |-> passed.channels[i].name])
      /\ Distinct([i \in DOMAIN passed.threads |-> passed.threads[i].name])
      /\ Distinct([i \in DOMAIN discordBindings |-> discordBindings[i].agentId])

\* C10, as the code has it: desired categories are emitted in code unit order
\* of their names; live categories, desired and live channels and live
\* threads in collation order of their names; created threads in the order
\* of their parent channel, then their name; bindings in collation order of
\* the agent.  Entries with equal keys keep their input order, so the emitted
\* actions are the same for another input order when the keys are distinct.
C10_OrderBySortKeys ==
  \A k \in DOMAIN results :
    LET r == results[k]
        desiredCategories == Section(r, "category", {"create", "noop"})
        createdThreads == Section(r, "thread", {"create"})
        desiredBindings == Section(r, "binding", {"create", "noop"})
        staleBindings == Section(r, "binding", {"delete"})
    IN  /\ NonDecreasing([i \in DOMAIN desiredCategories |->
                            CodeUnitRank(desiredCategories[i].name)])
        /\ NonDecreasing(NameKeys(Section(r, "category", {"delete"})))
        /\ NonDecreasing(NameKeys(Section(r, "channel", {"create", "update", "noop"})))
        /\ NonDecreasing(NameKeys(Section(r, "channel", {"delete"})))
        /\ NonDecreasing([i \in DOMAIN createdThreads |->
                            ThreadKeyRank(createdThreads[i].details.after.parentChannel,
                                          createdThreads[i].name)])
        /\ NonDecreasing(NameKeys(Section(r, "thread", {"delete"})))
        /\ NonDecreasing([i \in DOMAIN desiredBindings |->
                            localeCompare(desiredBindings[i].details.after.agentName)])
        /\ NonDecreasing([i \in DOMAIN staleBindings |->
                            localeCompare(staleBindings[i].details.before.agentName)])
        /\ SortKeysDistinct => ReversedResult = r

\* reconcile has returned for a configuration whose channels are not written
\* in name order, with distinct sort keys throughout
C10_Witness ==
  /\ results # <<>>
  /\ SortKeysDistinct
  /\ LET flat == flattenDesiredState(desired)
     IN  \E i, j \in DOMAIN flat.channels :
           i < j /\ localeCompare(flat.channels[i].name) > localeCompare(flat.channels[j].name)
  /\ \E a \in Range(results[1].actions) : a.type # "noop"

\* ------------------------------------------------------------------------
\* Properties of applyCommand and rollbackCommand, read off the record of
\* the run
\* ------------------------------------------------------------------------

EventsOf(name, op) == SelectSeq(calls, LAMBDA c : c.server = name /\ c.op = op)

IsApply(c) == c.op \in {"discord.apply", "openclaw.apply"}

\* the provider applies and snapshot writes of a record
Mutations(log) == SelectSeq(log, LAMBDA c : IsApply(c) \/ c.op = "saveSnapshot")

ServerNames == {serverEntries[i].name : i \in DOMAIN serverEntries}

EntryOf(name) == find(serverEntries, LAMBDA s : s.name = name)[1]

\* the actions reconcile and the filter left for a server
ReconciledActions(name) == EventsOf(name, "reconcile")[1].actions

ApplyThrewFor(name) == \E c \in Range(EventsOf(name, "discord.apply")) : c.threw

\* no provider call of the server threw and its verifications answered true
Succeeded(name) ==
  \A c \in Range(calls) :
    c.server = name =>
      /\ ~c.threw
      /\ c.op \in {"discord.verify", "openclaw.verify"} => c.verified

\* C2: in a confirmed apply over two servers where discord.apply throws for
\* one and every provider call of the other succeeds, a failure is recorded
\* for the first, the other is reconciled, applied and verified with no
\* failure recorded for it, and the only provider applies issued for it are
\* those of its own reconciled actions, whose effects are still in its guild
\* when the run ends.
C2_FailureOfOneServerLeavesTheOther ==
  \A x \in {"A", "B"} : \A y \in {"A", "B"} :
    (/\ command = "apply" /\ pc = "done" /\ args.yes
     /\ x # y /\ {x, y} \subseteq ServerNames
     /\ ApplyThrewFor(x)
     /\ Succeeded(y))
    => /\ \E e \in Range(errors) : e.server = x /\ e.error = "Discord apply failed"
       /\ \A e \in Range(errors) : e.server # y
       /\ result = "1"
       /\ Len(EventsOf(y, "reconcile")) = 1
       /\ LET acts == ReconciledActions(y)
              batches == EventsOf(y, "discord.apply")
              routed == EventsOf(y, "openclaw.apply")
              guild == guilds[EntryOf(y).guild]
          IN  /\ [i \in DOMAIN batches |-> batches[i].actions]
                   = SelectSeq(Phases(acts), LAMBDA b : b # <<>>)
              /\ \A b \in Range(batches) : b.performed = Len(b.actions)
              /\ Len(routed) = IF args.gateway /\ BindingActions(acts) # <<>> THEN 1 ELSE 0
              /\ \A c \in Range(routed) : \A a \in Range(c.actions) :
                   \E b \in Range(BindingActions(acts)) : b.type = a.type /\ b.name = a.name
              /\ Changes(acts) # <<>> => Len(EventsOf(y, "discord.verify")) = 1
              /\ \A a \in Range(DiscordActions(acts)) :
                   /\ (a.type = "create" /\ a.resourceType = "channel")
                        => \E ch \in Range(guild.channels) : ch.name = a.name
                   /\ (a.type = "create" /\ a.resourceType = "category")
                        => \E cat \in Range(guild.categories) : cat.name = a.name
                   /\ (a.type = "delete" /\ a.resourceType = "channel")
                        => \A ch \in Range(guild.channels) : ch.id # a.details.before.id

\* discord.apply threw for A, B created its channel and its binding, and the
\* run has ended with no failure recorded for B
C2_Witness ==
  /\ command = "apply" /\ pc = "done" /\ args.yes
  /\ ServerNames = {"A", "B"}
  /\ ApplyThrewFor("A")
  /\ Succeeded("B")
  /\ \E c \in Range(EventsOf("B", "discord.apply")) :
       \E a \in Range(c.actions) : a.type = "create"
  /\ EventsOf("B", "openclaw.apply") # <<>>
  /\ EventsOf("B", "openclaw.verify") # <<>>

\* C3: when a provider call made for a server throws during apply, the
\* exception is caught, a failure is recorded for that server, and every
\* other server is still reconciled before the command returns.
C3_EveryFailureIsCaught ==
  \A c \in Range(calls) :
    (command = "apply" /\ c.threw /\ c.server # Undefined)
      => /\ result # "uncaught"
         /\ \E e \in Range(errors) : e.server = c.server
         /\ pc = "done" =>
              \A s \in ServerNames : s # c.server => EventsOf(s, "reconcile") # <<>>

\* C4: of the batches a confirmed apply hands to discord.apply for one
\* server, no batch with a delete comes before a batch with a create or an
\* update, no batch holds a delete ahead of a create or an update, and when a
\* batch with a delete is handed over every create and update reconciled for
\* the server has been performed.
C4_CreatesBeforeDeletes ==
  (command = "apply" /\ args.yes) =>
    \A i \in DOMAIN calls : \A j \in DOMAIN calls :
      (/\ calls[i].op = "discord.apply" /\ calls[j].op = "discord.apply"
       /\ calls[i].server = calls[j].server /\ i <= j)
      => /\ \A m \in DOMAIN calls[i].actions : \A n \in DOMAIN calls[j].actions :
              (i < j \/ m < n)
                => ~(calls[i].actions[m].type = "delete" /\ calls[j].actions[n].type # "delete")
         /\ (i = j /\ \E a \in Range(calls[j].actions) : a.type = "delete")
              => \A a \in Range(DiscordActions(ReconciledActions(calls[j].server))) :
                   a.type # "delete"
                     => \E h \in 1..(j - 1) :
                          /\ calls[h].op = "discord.apply"
                          /\ calls[h].server = calls[j].server
                          /\ ~calls[h].threw
                          /\ a \in Range(calls[h].actions)

\* a server had creates or updates and deletes pending, and both batches
\* were handed to discord.apply
C4_Witness ==
  /\ command = "apply" /\ args.yes /\ pc = "done"
  /\ \E s \in ServerNames :
       /\ Len(EventsOf(s, "discord.apply")) = 2
       /\ \E a \in Range(EventsOf(s, "discord.apply")[1].actions) : a.type \in {"create", "update"}
       /\ \E a \in Range(EventsOf(s, "discord.apply")[2].actions) : a.type = "delete"

\* C5: in a confirmed apply with snapshots enabled, every provider apply is
\* preceded by the one write of the snapshot file; the file holds one entry
\* per resolved server, in order, with the state fetched for it, and the
\* fetched routing state; until the first apply these are the states of the
\* guilds and of the routing store themselves.
C5_SnapshotBeforeFirstApply ==
  (command = "apply" /\ args.yes /\ args.snapshot) =>
    LET saves == SelectIdx(calls, LAMBDA c : c.op = "saveSnapshot")
        applies == SelectIdx(calls, IsApply)
    IN  /\ Cardinality(saves) <= 1
        /\ \A j \in applies : \E i \in saves : i < j
        /\ saves # {} =>
             /\ snapshotFile # <<>>
             /\ [i \in DOMAIN snapshotFile[1].servers |->
                   <<snapshotFile[1].servers[i].name, snapshotFile[1].servers[i].guildId>>]
                  = [i \in DOMAIN serverEntries |->
                       <<serverEntries[i].name, serverEntries[i].guild>>]
             /\ \A i \in DOMAIN serverEntries :
                  /\ snapshotFile[1].servers[i].discord
                       = StringifyState(StateOf(serverEntries[i].name).discord)
                  /\ applies = {} =>
                       snapshotFile[1].servers[i].discord
                         = StringifyState(DiscordProvider_fetch(guilds[serverEntries[i].guild]))
             /\ snapshotFile[1].openclaw = openclawState
             /\ (applies = {} /\ args.gateway) =>
                  snapshotFile[1].openclaw = OpenClawAPIProvider_fetch(gateway)

\* the snapshot of two servers was written and a provider apply followed
C5_Witness ==
  /\ command = "apply" /\ args.yes /\ args.snapshot /\ pc = "done"
  /\ Len(serverEntries) = 2
  /\ \E i \in DOMAIN calls : \E j \in DOMAIN calls :
       i < j /\ calls[i].op = "saveSnapshot" /\ calls[j].op = "discord.apply"
  /\ \E j \in DOMAIN calls : calls[j].op = "openclaw.apply"
  /\ snapshotFile[1].servers[1].discord.channels # <<>>

\* C6: while yes is not given, no step of apply or of rollback changes a
\* guild, the routing store or the snapshot file, and none calls a provider's
\* apply or saveSnapshot.
C6_NothingChangesWithoutYes ==
  [][~args.yes => /\ guilds' = guilds
                  /\ gateway' = gateway
                  /\ snapshotFile' = snapshotFile
                  /\ snapshotSaved' = snapshotSaved
                  /\ Mutations(calls') = Mutations(calls)]_vars

\* a command without yes has ended after reconcile found changes to make
C6_Witness ==
  /\ ~args.yes /\ pc = "done" /\ result \in {"0", "2"}
  /\ \E c \in Range(calls) : c.op = "reconcile" /\ Changes(c.actions) # <<>>
  /\ Mutations(calls) = <<>>

\* C7: without prune, a confirmed apply hands no delete action, of any
\* resource type, to a provider.
C7_NoDeleteWithoutPrune ==
  (command = "apply" /\ args.yes /\ ~args.prune) =>
    \A c \in Range(calls) : IsApply(c) => \A a \in Range(c.actions) : a.type # "delete"

\* C7, as the code has it: without prune, a confirmed apply reconciles and
\* hands to discord.apply no delete of a category, a channel or a thread;
\* the deletes it issues are those of stale bindings, which do not depend on
\* prune.
C7_NoWorkspaceDeleteWithoutPrune ==
  (command = "apply" /\ args.yes /\ ~args.prune) =>
    \A c \in Range(calls) :
      /\ c.op = "discord.apply" => \A a \in Range(c.actions) : a.type # "delete"
      /\ c.op \in {"reconcile", "openclaw.apply"}
           => \A a \in Range(c.actions) : a.type = "delete" => a.resourceType = "binding"

\* a confirmed apply without prune has ended after discord.apply succeeded on
\* a guild that holds a channel the server's configuration does not declare
C7_Witness ==
  /\ command = "apply" /\ args.yes /\ ~args.prune /\ pc = "done"
  /\ \E s \in ServerNames :
       /\ \E c \in Range(EventsOf(s, "discord.apply")) : ~c.threw
       /\ \E ch \in Range(guilds[EntryOf(s).guild].channels) :
            ch.name \notin DeclaredChannelNames(DesiredOf(EntryOf(s)))

\* ------------------------------------------------------------------------
\* The inputs of reconcile after the call
\* ------------------------------------------------------------------------

\* C11: after reconcile has returned, the workspace state object it was
\* handed holds its category, channel and thread arrays in the order they
\* had at the call (desired and openclaw are never assigned by Reconcile).
C11_InputsUnchanged ==
  results # <<>> => discord = passed

\* ------------------------------------------------------------------------
\* Convergence of reconcile.  The create and update actions of a result are
\* applied to the state as their details describe them: a created resource
\* is added under an id no live resource has, an updated channel takes the
\* attributes of details.after, a created binding is stored against the id
\* of the channel its reference names.  Delete and noop actions are left
\* alone.
\* ------------------------------------------------------------------------

FreshId(resourceType, name) == "new-" \o resourceType \o "-" \o name

IdByName(resources, name) ==
  LET r == find(sortByName(resources), LAMBDA c : c.name = name)
  IN  IF r = <<>> THEN Undefined ELSE r[1].id

\* the attributes details.after gives a channel that had the category id was
ChannelAfter(after, categories, was) ==
  [topic |-> Get(after, "topic"),
   categoryId |-> IF "categoryName" \notin DOMAIN after THEN was
                  ELSE IF after.categoryName = Null THEN Undefined
                  ELSE IdByName(categories, after.categoryName)]
    @@ [k \in DOMAIN after \cap {"restricted", "private", "addBot"} |-> after[k]]

Transformed(st, a) ==
  LET d == st.discord
      after == Details(a, "after")
  IN  CASE a.type = "create" /\ a.resourceType = "category" ->
             [st EXCEPT !.discord.categories =
                Append(@, [id |-> FreshId("category", a.name), name |-> a.name])]
        [] a.type = "create" /\ a.resourceType = "channel" ->
             [st EXCEPT !.discord.channels =
                Append(@, [id |-> FreshId("channel", a.name), name |-> a.name,
                           type |-> "text"]
                            @@ ChannelAfter(after, d.categories, Undefined))]
        [] a.type = "update" /\ a.resourceType = "channel" ->
             LET i == Min(SelectIdx(d.channels, LAMBDA c : c.name = a.name))
                 ch == d.channels[i]
             IN  [st EXCEPT !.discord.channels[i] =
                    [id |-> ch.id, name |-> ch.name, type |-> ch.type]
                      @@ ChannelAfter(after, d.categories, ch.categoryId)]
        [] a.type = "create" /\ a.resourceType = "thread" ->
             [st EXCEPT !.discord.threads =
                Append(@, [id |-> FreshId("thread", after.parentChannel \o ":" \o a.name),
                           name |-> a.name,
                           parentChannelId |-> IdByName(d.channels, after.parentChannel)])]
        [] a.type = "create" /\ a.resourceType = "binding" ->
             [st EXCEPT !.openclaw.bindings =
                Append(@, DiscordBinding(after.agentName,
                                         IdByName(d.channels, after.channelRef)))]
        [] OTHER -> st

RECURSIVE TransformedBy(_, _)
TransformedBy(st, actions) ==
  IF actions = <<>> THEN st
  ELSE TransformedBy(Transformed(st, Head(actions)), Tail(actions))

\* the result of reconciling the desired state against the state as passed
\* with the creates and updates of the first result applied
SecondResult ==
  LET st == TransformedBy([discord |-> passed, openclaw |-> openclaw], results[1].actions)
  IN  reconcile(desired, st.discord, st.openclaw, options)

Deletes(actions) == SelectSeq(actions, LAMBDA a : a.type = "delete")

\* C12 (as stated): reconciling the desired state against the transformed
\* state yields only noop actions.
C12_OnlyNoops ==
  results # <<>> =>
    \A i \in DOMAIN SecondResult.actions : SecondResult.actions[i].type = "noop"

\* C12 (amended): reconciling the desired state against the transformed
\* state yields no create and no update; what it yields besides noops are
\* the delete actions of the first result, which were not applied.
C12_ConvergesUpToDeletes ==
  results # <<>> =>
    /\ \A i \in DOMAIN SecondResult.actions :
         SecondResult.actions[i].type \in {"noop", "delete"}
    /\ Deletes(SecondResult.actions) = Deletes(results[1].actions)

\* a result with a create, an update and a delete, reconciled again
C12_Witness ==
  /\ results # <<>>
  /\ \E i \in DOMAIN results[1].actions : results[1].actions[i].type = "update"
  /\ \E i \in DOMAIN results[1].actions : results[1].actions[i].type = "create"
  /\ SecondResult.actions # <<>>
  /\ \A i \in DOMAIN SecondResult.actions : SecondResult.actions[i].type = "noop"

\* ------------------------------------------------------------------------
\* Properties of the snapshot store
\* ------------------------------------------------------------------------

\* the positions of the loads that directly follow a save
LoadsAfterSave ==
  {i \in 2..Len(calls) : calls[i].op = "loadSnapshot" /\ calls[i - 1].op = "saveSnapshot"}

\* reading any property of a or of b gives the same value: a property one
\* of them lacks is undefined in the other
SameReads(a, b) ==
  \A k \in DOMAIN a \cup DOMAIN b :
    IF k \in DOMAIN a /\ k \in DOMAIN b THEN a[k] = b[k]
    ELSE /\ k \in DOMAIN a => a[k] = Undefined
         /\ k \in DOMAIN b => b[k] = Undefined

SameStates(a, b) ==
  /\ a.categories = b.categories
  /\ a.threads = b.threads
  /\ a.pins = b.pins
  /\ Len(a.channels) = Len(b.channels)
  /\ \A i \in DOMAIN a.channels : SameReads(a.channels[i], b.channels[i])

\* the loaded snapshot l reads as the snapshot s: the config hash, the
\* routing state and the targets of s, each target with its id and a
\* workspace state that reads the same
ReadsAs(l, s) ==
  /\ l.configHash = s.configHash
  /\ l.openclaw = s.openclaw
  /\ Len(l.servers) = Len(s.servers)
  /\ \A j \in DOMAIN s.servers :
       /\ l.servers[j].name = s.servers[j].name
       /\ l.servers[j].guildId = s.servers[j].guildId
       /\ SameStates(l.servers[j].discord, s.servers[j].discord)

\* C13 (as stated): a load that follows a save returns a value deeply equal
\* to the snapshot that was saved.
C13_RoundTrip ==
  \A i \in LoadsAfterSave : calls[i].returned = <<calls[i - 1].snapshot>>

\* C13 (amended): a load that follows a save returns a snapshot with the
\* config hash, the routing state and the targets of the one saved, each
\* target with its id and a workspace state that reads the same: equal
\* categories, threads and pins, and channels equal in every property but
\* those whose value was undefined, which the loaded channel lacks.
C13_RoundTripOfDefined ==
  \A i \in LoadsAfterSave :
    /\ calls[i].returned # <<>>
    /\ ReadsAs(calls[i].returned[1], calls[i - 1].snapshot)

\* a snapshot with a channel that has a topic and a channel that has none
\* was saved and loaded
C13_Witness ==
  \E i \in LoadsAfterSave :
    LET chs == calls[i - 1].snapshot.servers[1].discord.channels
    IN  /\ \E j \in DOMAIN chs : chs[j].topic = Undefined
        /\ \E j \in DOMAIN chs : chs[j].topic # Undefined
        /\ calls[i].returned # <<>>

Loads == {i \in DOMAIN calls : calls[i].op = "loadSnapshot"}

\* the loads of a file of the old format
LegacyLoads ==
  {i \in Loads : /\ calls[i].file # <<>>
                 /\ "discord" \in DOMAIN calls[i].file[1]
                 /\ "servers" \notin DOMAIN calls[i].file[1]}

\* C14: the load of a file that has a workspace state at top level and no
\* servers returns the multi-target shape: exactly one target, named
\* "default", with the id "unknown" and the workspace state of the file, and
\* the routing state of the file.
C14_LegacyMigration ==
  \A i \in LegacyLoads :
    /\ calls[i].returned # <<>>
    /\ LET raw == calls[i].file[1]
           l == calls[i].returned[1]
       IN  /\ "servers" \in DOMAIN l
           /\ "discord" \notin DOMAIN l
           /\ Len(l.servers) = 1
           /\ l.servers[1].name = "default"
           /\ l.servers[1].guildId = "unknown"
           /\ l.servers[1].discord = raw.discord
           /\ l.openclaw = raw.openclaw

\* a file of the old format with channels and bindings was loaded
C14_Witness ==
  \E i \in LegacyLoads :
    /\ calls[i].file[1].discord.channels # <<>>
    /\ calls[i].file[1].openclaw.bindings # <<>>
    /\ calls[i].returned # <<>>

\* C15: the load of a path with no file, or with a file whose text does not
\* parse, returns null; the call returns, it does not throw.
C15_AbsentOrUnparseableIsNull ==
  \A i \in Loads :
    (calls[i].file = <<>> \/ calls[i].file = <<NotJson>>) => calls[i].returned = <<>>

\* a file that does not parse was loaded, and the caller went on to save
C15_Witness ==
  /\ Len(calls) >= 2
  /\ calls[1].op = "loadSnapshot" /\ calls[1].file = <<NotJson>> /\ calls[1].returned = <<>>
  /\ calls[2].op = "saveSnapshot"

Saves == {i \in DOMAIN calls : calls[i].op = "saveSnapshot"}

\* C16: a load that follows one or more saves returns the snapshot of the
\* last of them, and never one saved before it that reads differently: the
\* file holds the text of the last save alone.
C16_OneLevelOfHistory ==
  /\ Saves # {} => snapshotFile # <<>> /\ ReadsAs(snapshotFile[1], calls[Max(Saves)].snapshot)
  /\ \A i \in Loads :
       LET before == {j \in Saves : j < i}
       IN  before # {} =>
             /\ calls[i].returned # <<>>
             /\ ReadsAs(calls[i].returned[1], calls[Max(before)].snapshot)
             /\ \A k \in before :
                  ReadsAs(calls[i].returned[1], calls[k].snapshot)
                    => ReadsAs(saveSnapshot(calls[k].snapshot), calls[Max(before)].snapshot)

\* two snapshots that differ were saved one after the other, then loaded
C16_Witness ==
  /\ Len(calls) = 3
  /\ calls[1].op = "saveSnapshot" /\ calls[2].op = "saveSnapshot"
  /\ calls[1].snapshot # calls[2].snapshot
  /\ calls[3].op = "loadSnapshot"
  /\ calls[3].returned # <<>>

\* ------------------------------------------------------------------------
\* Properties of rollback
\* ------------------------------------------------------------------------

NoLoadableSnapshot == command = "rollback" /\ loadSnapshot(snapshotFile) = <<>>

\* C17: a step of a rollback that finds no loadable snapshot ends the command
\* with the result 1: it calls no provider (no login, fetch, apply or
\* verify), changes no guild and no routing store, and writes no snapshot.
C17_NoSnapshotFailsAtOnce ==
  [][NoLoadableSnapshot =>
       /\ result' = "1" /\ pc' = "done"
       /\ calls = <<>> /\ calls' = calls
       /\ guilds' = guilds /\ gateway' = gateway
       /\ snapshotFile' = snapshotFile /\ snapshotSaved' = snapshotSaved]_vars

\* a confirmed rollback over a file that does not parse has ended
C17_Witness ==
  /\ NoLoadableSnapshot
  /\ snapshotFile = <<NotJson>>
  /\ args.yes
  /\ pc = "done" /\ result = "1" /\ calls = <<>>

\* C18: in a confirmed rollback with snapshots enabled, every apply call to
\* a provider comes after the write of the pre-rollback snapshot, and until
\* the first apply the file holds the states the guilds of the rollback and
\* the routing store are in (no bindings when no routing provider is
\* available to fetch them).
C18_PreRollbackSnapshotFirst ==
  (command = "rollback" /\ args.yes /\ args.snapshot) =>
    LET saves == SelectIdx(calls, LAMBDA c : c.op = "saveSnapshot")
        applies == SelectIdx(calls, IsApply)
    IN  /\ Cardinality(saves) <= 1
        /\ \A j \in applies : \E i \in saves : i < j
        /\ (saves # {} /\ applies = {}) =>
             /\ snapshotFile # <<>>
             /\ [i \in DOMAIN snapshotFile[1].servers |-> snapshotFile[1].servers[i].guildId]
                  = [i \in DOMAIN serverEntries |-> serverEntries[i].guildId]
             /\ \A i \in DOMAIN snapshotFile[1].servers :
                  snapshotFile[1].servers[i].discord
                    = StringifyState(DiscordProvider_fetch(
                                       guilds[snapshotFile[1].servers[i].guildId]))
             /\ snapshotFile[1].openclaw =
                  IF args.gateway THEN OpenClawAPIProvider_fetch(gateway) ELSE NoOpenClaw

\* a confirmed rollback wrote the pre-rollback snapshot, then called the
\* apply of both providers
C18_Witness ==
  /\ command = "rollback" /\ args.yes /\ args.snapshot /\ pc = "done"
  /\ \E i \in DOMAIN calls : \E j \in DOMAIN calls :
       i < j /\ calls[i].op = "saveSnapshot" /\ calls[j].op = "discord.apply"
  /\ \E j \in DOMAIN calls : calls[j].op = "openclaw.apply"
  /\ snapshotFile[1].configHash = "pre-rollback-hash"

\* what a workspace state holds, ids aside: the names of its categories, its
\* channels with topic and category name, its threads with the name of the
\* parent channel
NameOfId(resources, id) ==
  LET r == find(resources, LAMBDA c : c.id = id)
  IN  IF r = <<>> THEN Undefined ELSE r[1].name

Content(state) ==
  [categories |-> {state.categories[i].name : i \in DOMAIN state.categories},
   channels |-> {<<state.channels[i].name, Get(state.channels[i], "topic"),
                   NameOfId(state.categories, Get(state.channels[i], "categoryId"))>> :
                   i \in DOMAIN state.channels},
   threads |-> {<<state.threads[i].name,
                  NameOfId(state.channels, state.threads[i].parentChannelId)>> :
                  i \in DOMAIN state.threads}]

\* the discord bindings of a routing state to the channels of a workspace
\* state, as pairs of agent and channel name
BoundNames(routing, state) ==
  {<<routing.bindings[i].agentId, NameOfId(state.channels, routing.bindings[i].match.peer.id)>> :
     i \in {j \in DOMAIN routing.bindings :
              /\ routing.bindings[j].match.channel = "discord"
              /\ NameOfId(state.channels, routing.bindings[j].match.peer.id) # Undefined}}

\* every target of the rollback went through both applies without a failure
RolledBack ==
  /\ command = "rollback" /\ args.yes /\ args.gateway /\ pc = "done" /\ result = "0"
  /\ \E i \in DOMAIN calls : IsApply(calls[i])
  /\ \A i \in DOMAIN calls : ~calls[i].threw

\* C19: after a confirmed rollback has applied its actions and reported
\* success, the guild of every target holds the categories, channels and
\* threads of the snapshot, and the routing store binds the agents to the
\* target's channels as it did in the snapshot.
C19_RollbackRestoresSnapshot ==
  RolledBack =>
    \A i \in DOMAIN serverEntries :
      LET captured == serverEntries[i].discord
          live == DiscordProvider_fetch(guilds[serverEntries[i].guildId])
      IN  /\ Content(live) = Content(captured)
          /\ BoundNames(OpenClawAPIProvider_fetch(gateway), live)
               = BoundNames(snapshot[1].openclaw, captured)

\* C20: for every target a rollback has reconciled, the resources whose
\* action type under the configuration against the snapshot differs from the
\* one under the snapshot against the live state have been written out as
\* drift warnings, and before any apply call to a provider.
C20_DriftIsSurfaced ==
  command = "rollback" =>
    \A i \in DOMAIN serverActions :
      serverActions[i].driftWarnings # <<>> =>
        \E j \in DOMAIN calls :
          /\ calls[j].op = "console.log"
          /\ calls[j].server = serverActions[i].serverName
          /\ calls[j].lines = serverActions[i].driftWarnings
          /\ \A k \in SelectIdx(calls, IsApply) : j < k

\* the verify calls that answered true for a server
VerifiedBy(op, name) ==
  \E j \in DOMAIN calls :
    calls[j].op = op /\ calls[j].server = name /\ ~calls[j].threw /\ calls[j].verified

\* C21: a rollback with a routing provider that ends with the result 0 has,
\* for every target it had changes for, a verify of the guild and a verify
\* of the routing store that answered true.
C21_RollbackVerifiesBoth ==
  (command = "rollback" /\ args.yes /\ args.gateway /\ pc = "done" /\ result = "0") =>
    \A i \in DOMAIN serverActions :
      (Changes(serverActions[i].actions) # <<>> /\ Mutations(calls) # <<>>) =>
        /\ VerifiedBy("discord.verify", serverActions[i].serverName)
        /\ VerifiedBy("openclaw.verify", serverActions[i].serverName)

\* C22: when a provider call made for a target throws during a rollback, the
\* exception is caught and a failure is recorded for that target; the
\* command goes on to the other targets and returns 1.
C22_RollbackFailureIsCaught ==
  command = "rollback" =>
    \A i \in DOMAIN calls :
      (calls[i].threw /\ calls[i].server # Undefined)
        => /\ result # "uncaught"
           /\ \E e \in DOMAIN errors : errors[e].server = calls[i].server
           /\ pc = "done" => result = "1"

\* ------------------------------------------------------------------------
\* Properties of apply: the routing store, verification and the result
\* ------------------------------------------------------------------------

\* no provider call made for the server threw, the routing apply aside
NothingThrewBefore(name) ==
  \A i \in DOMAIN calls :
    (calls[i].server = name /\ calls[i].op # "openclaw.apply") => ~calls[i].threw

\* the binding actions, noop or not, among the actions in scope of a server
BindingsInScope(name) ==
  SelectSeq(ReconciledActions(name), LAMBDA a : a.resourceType = "binding")

\* C23: a confirmed apply with a routing provider that has run to its end has
\* called ocProvider.apply once for every server whose actions in scope hold
\* a binding action and whose earlier calls did not fail, with every binding
\* action in scope, noop included, also when the server has no change.
C23_GatesResynced ==
  (command = "apply" /\ args.yes /\ args.gateway /\ pc = "done" /\ result # "uncaught") =>
    \A s \in ServerNames :
      (/\ EventsOf(s, "reconcile") # <<>>
       /\ BindingsInScope(s) # <<>>
       /\ NothingThrewBefore(s)) =>
        /\ Len(EventsOf(s, "openclaw.apply")) = 1
        /\ Len(EventsOf(s, "openclaw.apply")[1].actions)
             = Len(BindingsInScope(s))

\* a server with nothing to change and a noop binding had its routing apply
C23_Witness ==
  /\ command = "apply" /\ args.yes /\ args.gateway /\ pc = "done"
  /\ \E s \in ServerNames :
       /\ EventsOf(s, "reconcile") # <<>>
       /\ Changes(ReconciledActions(s)) = <<>>
       /\ BindingsInScope(s) # <<>>
       /\ EventsOf(s, "openclaw.apply") # <<>>
       /\ ~EventsOf(s, "openclaw.apply")[1].threw

ErrorsOf(name) == SelectSeq(errors, LAMBDA e : e.server = name)

FilterMatches ==
  "serverFilter" \in DOMAIN args =>
    \E i \in DOMAIN config.servers : config.servers[i].name = args.serverFilter

\* C25: a confirmed apply that went through its loop and returned has
\* returned 0 exactly when no failure was recorded, and 1 otherwise.
C25_ZeroIffNoFailure ==
  (command = "apply" /\ args.yes /\ FilterMatches /\ pc = "done" /\ result # "uncaught") =>
    /\ result = "0" <=> errors = <<>>
    /\ result = "1" <=> errors # <<>>

C25_Witness ==
  /\ command = "apply" /\ args.yes /\ FilterMatches /\ pc = "done"
  /\ result = "1"
  /\ Len(errors) = 1
  /\ \E s \in ServerNames : ErrorsOf(s) = <<>> /\ VerifiedBy("discord.verify", s)

\* C26: when apply is given a --server that names no configured server, its
\* only step returns 1 after printing the names of the configured servers:
\* no provider is called, no snapshot is written, and the guilds and the
\* routing store are left as they were.
C26_UnmatchedFilterFailsFirst ==
  [][(command = "apply" /\ ~FilterMatches) =>
       /\ pc' = "done" /\ result' = "1"
       /\ UNCHANGED <<guilds, ids, gateway, snapshotFile, snapshotSaved, errors>>
       /\ Len(calls') = 1
       /\ calls'[1].op = "console.error"
       /\ calls'[1].names = [i \in DOMAIN config.servers |-> config.servers[i].name]
       /\ calls'[1].names # <<>>]_vars

C26_Witness ==
  /\ command = "apply" /\ ~FilterMatches /\ args.yes
  /\ pc = "done" /\ result = "1"
  /\ Len(calls) = 1 /\ calls[1].op = "console.error"

\* ------------------------------------------------------------------------
\* Properties of apply: one server at a time
\* ------------------------------------------------------------------------

\* the turns of the per-server loop, in the order they began
Turns == SelectSeq(calls, LAMBDA c : c.op = "reconcile")

\* the i-th record was made inside the per-server loop
InLoop(i) == \E r \in 1..i : calls[r].op = "reconcile"

\* C27: in apply, the calls made for a server within the fetch loop, and
\* within the per-server loop, are consecutive in the record of the run: no
\* call for another server lies between two calls for the same server; the
\* turns of the per-server loop are taken in the order of the configured
\* servers, each server at most once, and a run that returned has taken all
\* of them.
C27_OneTargetAtATime ==
  command = "apply" =>
    /\ \A i \in DOMAIN calls : \A k \in DOMAIN calls :
         (/\ i < k
          /\ calls[i].server # Undefined
          /\ calls[i].server = calls[k].server
          /\ InLoop(i) = InLoop(k)) =>
           \A j \in i..k : calls[j].server = calls[i].server
    /\ Len(Turns) <= Len(serverEntries)
    /\ \A t \in DOMAIN Turns : Turns[t].server = serverEntries[t].name
    /\ (pc = "done" /\ result # "uncaught" /\ FilterMatches) =>
         Len(Turns) = Len(serverEntries)

C27_Witness ==
  /\ command = "apply" /\ args.yes /\ pc = "done" /\ result = "1"
  /\ Len(Turns) = 2
  /\ \A s \in ServerNames :
       /\ EventsOf(s, "discord.apply") # <<>>
       /\ EventsOf(s, "login") # <<>>
  /\ \E s \in ServerNames : ApplyThrewFor(s)

\* ------------------------------------------------------------------------
\* Properties of apply: the routing store after the guild
\* ------------------------------------------------------------------------

\* the binding action carries the id that the channel it refers to has in
\* the guild
CarriesLiveId(a, guild) ==
  /\ "resolvedChannelId" \in DOMAIN a.details.after
  /\ \E c \in Range(guild.categories \o guild.channels) :
       /\ c.name = a.details.after.channelRef
       /\ c.id = a.details.after.resolvedChannelId

\* C28: in a confirmed apply, when ocProvider.apply has just been called for
\* a server, every discord.apply the server's actions call for has been made
\* before it and none of them threw, and every binding action with an after
\* that it was handed carries the id its channel has in the guild at that
\* moment.
C28_RoutingAfterGuild ==
  (/\ command = "apply" /\ args.yes
   /\ calls # <<>> /\ calls[Len(calls)].op = "openclaw.apply") =>
    LET call == calls[Len(calls)]
        s == call.server
        batches == SelectSeq(Phases(ReconciledActions(s)), LAMBDA b : b # <<>>)
        applies == EventsOf(s, "discord.apply")
    IN  /\ Len(applies) = Len(batches)
        /\ \A j \in DOMAIN applies : ~applies[j].threw /\ applies[j].actions = batches[j]
        /\ \A a \in Range(call.actions) :
             /\ a.resourceType = "binding"
             /\ DOMAIN Details(a, "after") # {} =>
                  CarriesLiveId(a, guilds[EntryOf(s).guild])

\* the ordering of C28 alone: ocProvider.apply comes after every
\* discord.apply of the server, none of which threw
RoutingAfterGuildOrder ==
  (/\ command = "apply" /\ args.yes
   /\ calls # <<>> /\ calls[Len(calls)].op = "openclaw.apply") =>
    LET s == calls[Len(calls)].server
        batches == SelectSeq(Phases(ReconciledActions(s)), LAMBDA b : b # <<>>)
        applies == EventsOf(s, "discord.apply")
    IN  /\ Len(applies) = Len(batches)
        /\ \A j \in DOMAIN applies : ~applies[j].threw /\ applies[j].actions = batches[j]

\* ------------------------------------------------------------------------
\* Properties of apply: the count in the failure report
\* ------------------------------------------------------------------------

RECURSIVE PerformedIn(_)
\* the actions the discord.apply calls of a record performed
PerformedIn(applies) ==
  IF applies = <<>> THEN 0
  ELSE applies[1].performed + PerformedIn(Tail(applies))

\* C29: the count in a server's "Discord apply failed" report is the number
\* of actions its discord.apply calls had performed when the failing call
\* threw.
C29_AppliedCountIsExact ==
  (command = "apply" /\ args.yes) =>
    \A e \in Range(errors) :
      e.error = "Discord apply failed" =>
        e.applied = PerformedIn(EventsOf(e.server, "discord.apply"))

\* ------------------------------------------------------------------------
\* Properties of rollback: the desired state built from the snapshot
\* ------------------------------------------------------------------------

\* the channels a desired state declares, each with the category it is
\* declared under
Placed(d) ==
  UNION {IF isCategoryGroup(d.channels[e])
           THEN {<<ch, d.channels[e].category>> : ch \in Range(d.channels[e].channels)}
           ELSE {<<d.channels[e], Undefined>>} : e \in DOMAIN d.channels}

DesiredThreads(ch) == IF "threads" \in DOMAIN ch THEN Range(ch.threads) ELSE {}

\* the agent and channel name of every binding a desired state declares
DesiredBindings(d) ==
  IF "openclaw" \notin DOMAIN d THEN {}
  ELSE UNION {{<<a.agentName, it.channel>> : it \in Range(a.items)} :
                a \in Range(d.openclaw.agents)}

\* the bindings of a capture that route to the channels of the server
CapturedBindings(cap, oc) ==
  {<<b.agentId, NameOfId(cap.channels, b.match.peer.id)>> :
     b \in {x \in Range(oc.bindings) : /\ x.match.channel = "discord"
                                       /\ x.match.peer.id \in LiveChannelIds(cap)}}

\* C30: the desired state rollback builds from a server's capture declares
\* every captured category, every captured channel under its captured
\* category (or under none) with its topic and flags, every captured thread
\* under its parent channel, and as bindings exactly the captured bindings
\* that route to the server's captured channels.
C30_DesiredIsTheCapture ==
  (command = "rollback" /\ snapshot # <<>>) =>
    \A i \in DOMAIN serverEntries :
      LET cap == serverEntries[i].discord
          d == snapshotToDesired(cap, serverEntries[i].guildId, snapshot[1].openclaw)
      IN  /\ \A c \in Range(cap.categories) : c.name \in DeclaredCategories(d)
          /\ \A ch \in Range(cap.channels) :
               \E p \in Placed(d) :
                 /\ p[1].name = ch.name
                 /\ p[2] = NameOfId(cap.categories, Get(ch, "categoryId"))
                 /\ Get(p[1], "topic") = Get(ch, "topic")
                 /\ ChannelFlags(p[1]) = ChannelFlags(ch)
          /\ \A th \in Range(cap.threads) :
               \E p \in Placed(d) :
                 /\ p[1].name = NameOfId(cap.channels, th.parentChannelId)
                 /\ th.name \in DesiredThreads(p[1])
          /\ DesiredBindings(d) = CapturedBindings(cap, snapshot[1].openclaw)

\* ------------------------------------------------------------------------
\* Properties of reconcile: updates of channels, threads by parent and name
\* ------------------------------------------------------------------------

\* the desired channel p, declared under category p[2], differs from the
\* live channel in its topic, its category or one of its flags
Differs(p, live, categories) ==
  \/ Get(p[1], "topic") # Get(live, "topic")
  \/ p[2] # NameOfId(categories, Get(live, "categoryId"))
  \/ \E k \in {"restricted", "private", "addBot"} : Truthy(p[1], k) # Truthy(live, k)

ChannelActionsFor(r, name) ==
  SelectSeq(r.actions, LAMBDA a : a.resourceType = "channel" /\ a.name = name)

\* the live channels a name finds: the first of the name in the array
FirstOfName(channels) ==
  {channels[i] : i \in {k \in DOMAIN channels :
                          \A j \in 1..(k - 1) : channels[j].name # channels[k].name}}

\* C31: for every desired channel that has a live channel of its name,
\* reconcile emits one action for it, an update when its topic, the name of
\* its category or one of the flags restricted, private, addBot differs
\* between it and the live channel its name finds, and a noop when none
\* does.
C31_UpdateIffDiffers ==
  \A r \in Range(results) :
    \A p \in Placed(desired) :
      \A live \in FirstOfName(passed.channels) :
        live.name = p[1].name =>
          /\ Len(ChannelActionsFor(r, live.name)) = 1
          /\ ChannelActionsFor(r, live.name)[1].type =
               IF Differs(p, live, passed.categories) THEN "update" ELSE "noop"

C31_Witness ==
  /\ results # <<>>
  /\ \E p \in Placed(desired) : \E live \in Range(passed.channels) :
       /\ live.name = p[1].name
       /\ Get(p[1], "topic") = Get(live, "topic")
       /\ p[2] = NameOfId(passed.categories, Get(live, "categoryId"))
       /\ Truthy(p[1], "private") /\ ~Truthy(live, "private")
       /\ ChannelActionsFor(results[1], live.name)[1].type = "update"

\* a live thread of the name exists under the live channel the parent name
\* finds
LiveUnder(parent, name) ==
  \E ch \in FirstOfName(passed.channels) : \E th \in Range(passed.threads) :
    /\ ch.name = parent
    /\ th.name = name
    /\ th.parentChannelId = ch.id

\* C32: reconcile emits for a desired thread a create that names its parent
\* channel exactly when no live thread of its name exists under the live
\* channel of its parent's name, and a noop otherwise; a live thread whose
\* name is declared but under a parent of another name is listed as
\* unmanaged, or deleted under prune.
C32_ThreadsByParentAndName ==
  \A r \in Range(results) :
    /\ \A t \in DeclaredThreads(desired) :
         Count(r.actions, LAMBDA a : /\ a.resourceType = "thread" /\ a.type = "create"
                                     /\ a.name = t[2]
                                     /\ a.details.after.parentChannel = t[1])
           = IF LiveUnder(t[1], t[2]) THEN 0 ELSE 1
    /\ \A n \in {t[2] : t \in DeclaredThreads(desired)} :
         Count(r.actions, LAMBDA a : /\ a.resourceType = "thread" /\ a.type = "noop"
                                     /\ a.name = n)
           = Cardinality({t \in DeclaredThreads(desired) : t[2] = n /\ LiveUnder(t[1], n)})
    /\ \A th \in Range(passed.threads) :
         (/\ \E t \in DeclaredThreads(desired) : t[2] = th.name
          /\ LiveThreadPair(passed, th) \notin DeclaredThreads(desired))
           => PruneSymmetric(r, "thread", th)

\* a desired thread whose name only a live thread under another channel has
C32_Witness ==
  /\ results # <<>>
  /\ \E t \in DeclaredThreads(desired) : \E th \in Range(passed.threads) :
       /\ th.name = t[2]
       /\ ~LiveUnder(t[1], t[2])
       /\ LiveThreadPair(passed, th)[1] \notin {"", t[1]}
       /\ LiveThreadPair(passed, th) \notin DeclaredThreads(desired)

\* ------------------------------------------------------------------------
\* Properties of the routing store: gates of deleted bindings
\* ------------------------------------------------------------------------

\* a binding of the routing store routes to the channel
StillBound(channelId) ==
  \E b \in Range(gateway.bindings) :
    b.match.channel = "discord" /\ b.match.peer.id = channelId

\* C33: when ocProvider.apply has just returned from deleting a binding and
\* syncing the gates of a guild, a gate of that guild for the channel of the
\* deleted binding is closed exactly when no binding routes to the channel
\* any more.
C33_GateClosedWithLastBinding ==
  (/\ command = "apply" /\ args.yes
   /\ calls # <<>>
   /\ calls[Len(calls)].op = "openclaw.apply" /\ ~calls[Len(calls)].threw) =>
    LET call == calls[Len(calls)]
        gates == gateway.guilds[EntryOf(call.server).guild]
    IN  \A a \in Range(call.actions) :
          (/\ a.type = "delete"
           /\ "resolvedChannelId" \in DOMAIN Details(a, "before")
           /\ a.details.before.resolvedChannelId \in DOMAIN gates) =>
            (gates[a.details.before.resolvedChannelId].allow
               <=> StillBound(a.details.before.resolvedChannelId))

\* ------------------------------------------------------------------------
\* Properties of apply: a second run, and the success of a faithful run
\* ------------------------------------------------------------------------

NothingThrew == \A c \in Range(calls) : ~c.threw

\* the actions a run of apply started in the current state of the guilds and
\* of the routing store computes for a server: fetch, reconcile, filter
RepeatedActions(server) ==
  filterActions(reconcile(DesiredOf(server),
                          DiscordProvider_fetch(guilds[server.guild]),
                          OpenClawAPIProvider_fetch(gateway),
                          [prune |-> args.prune]).actions,
                args)

\* C34: when a confirmed apply over all the servers, with a routing
\* provider, has returned 0 and none of its provider calls threw, a second
\* apply with the same configuration and options computes only noops for
\* every server.
C34_SecondApplyIsNoop ==
  (/\ command = "apply" /\ args.yes /\ args.gateway
   /\ "serverFilter" \notin DOMAIN args
   /\ pc = "done" /\ result = "0" /\ NothingThrew) =>
    \A i \in DOMAIN serverEntries : Changes(RepeatedActions(serverEntries[i])) = <<>>

\* C35: when a confirmed apply has returned and no provider call made for a
\* server threw, no failure is recorded for the server, whatever its actions
\* were.
C35_FaithfulRunSucceeds ==
  (command = "apply" /\ args.yes /\ pc = "done" /\ result # "uncaught") =>
    \A s \in ServerNames :
      (\A c \in Range(calls) : c.server = s => ~c.threw) => ErrorsOf(s) = <<>>

\* ------------------------------------------------------------------------
\* Properties of rollback: the snapshot as a fixed point, no deletes
\* ------------------------------------------------------------------------

\* rollback fetched, for every server it rolls back, a workspace state that
\* reads as the server's capture, and a routing state equal to the captured
\* one
LiveIsTheSnapshot ==
  /\ snapshot # <<>>
  /\ serverEntries # <<>>
  /\ Len(serverStates) = Len(serverEntries)
  /\ \A i \in DOMAIN serverEntries :
       /\ serverStates[i].name = serverEntries[i].name
       /\ SameStates(serverStates[i].discord, serverEntries[i].discord)
  /\ args.gateway
  /\ openclawState = snapshot[1].openclaw

\* C36: a rollback that found every server's workspace and the routing
\* store as the snapshot captured them computes only noops, returns 0 and
\* calls no provider's apply and writes no snapshot.
C36_SnapshotIsFixedPoint ==
  (command = "rollback" /\ pc = "done" /\ result # "uncaught" /\ LiveIsTheSnapshot) =>
    /\ \A i \in DOMAIN serverActions : Changes(serverActions[i].actions) = <<>>
    /\ result = "0"
    /\ Mutations(calls) = <<>>

WorkspaceTypes == {"category", "channel", "thread"}

\* the ids of the categories, channels and threads of a guild
ResourceIds(guild) ==
  {c.id : c \in Range(guild.categories) \cup Range(guild.channels) \cup Range(guild.threads)}

NothingToChange ==
  /\ Len(Turns) = Len(serverEntries)
  /\ \A t \in DOMAIN Turns : Changes(Turns[t].actions) = <<>>

\* C38: a confirmed apply that has returned after reconciling every server
\* to noops only has not written the snapshot file.
C38_NoopRunKeepsSnapshot ==
  (/\ command = "apply" /\ args.yes /\ FilterMatches
   /\ pc = "done" /\ result # "uncaught"
   /\ NothingToChange) =>
    /\ ~snapshotSaved
    /\ \A c \in Range(calls) : c.op # "saveSnapshot"

SnapshotWritten == \E c \in Range(calls) : c.op = "saveSnapshot"

\* C38 (as amended): an apply that has reached its loop has written the
\* snapshot file exactly when it was confirmed with snapshots enabled,
\* whether or not any server had anything to change.
C38_SnapshotWrittenWhenConfirmed ==
  (/\ command = "apply" /\ FilterMatches
   /\ pc = "done" /\ result # "uncaught"
   /\ Turns # <<>>) =>
    /\ SnapshotWritten <=> (args.yes /\ args.snapshot)
    /\ SnapshotWritten <=> snapshotSaved

C38_Witness ==
  /\ command = "apply" /\ args.yes /\ FilterMatches
  /\ pc = "done" /\ result = "0"
  /\ NothingToChange
  /\ SnapshotWritten
  /\ \E s \in Range(snapshotFile[1].servers) :
       \E ch \in Range(s.discord.channels) : ch.id = "a1"

\* the names under which a snapshot holds captures
CapturedNames(file) == {file.servers[i].name : i \in DOMAIN file.servers}

\* the names of the servers the command knows: those of the configuration
\* for apply, those of the snapshot it loaded for rollback
KnownNames ==
  IF command = "apply"
    THEN {config.servers[i].name : i \in DOMAIN config.servers}
    ELSE CapturedNames(snapshot[1])

AcceptedPatch(c) == c.op = "config.patch" /\ ~c.threw

\* the request at i carries the hash of a configuration that a config.get
\* returned after every patch the gateway took before i
CarriesFreshHash(i) ==
  \E j \in 1..(i - 1) :
    /\ calls[j].op = "config.get" /\ ~calls[j].threw
    /\ calls[j].hash = calls[i].hash
    /\ \A k \in j..(i - 1) : ~AcceptedPatch(calls[k])

\* C40: the provider holds no cached configuration when a method returns
\* straight after a patch the gateway took; every config.patch carries as
\* baseHash the hash of a configuration fetched after the provider's
\* previous patch; every verify that answers has sent a config.get of its
\* own just before; and a cached configuration is the gateway's.
C40_CacheNeverStale ==
  command = "provider" =>
    /\ (/\ Len(calls) > 1
        /\ calls[Len(calls)].op = "apply" /\ ~calls[Len(calls)].threw
        /\ AcceptedPatch(calls[Len(calls) - 1])) => cachedConfig = <<>>
    /\ \A i \in DOMAIN calls : calls[i].op = "config.patch" => CarriesFreshHash(i)
    /\ \A i \in DOMAIN calls :
         (calls[i].op = "verify" /\ ~calls[i].threw) =>
           /\ i > 1
           /\ calls[i - 1].op = "config.get" /\ ~calls[i - 1].threw
    /\ cachedConfig # <<>> => cachedConfig[1] = gateway

\* a fetch has filled the cache, an apply has then sent two patches, and a
\* verify has answered afterwards
C40_Witness ==
  /\ command = "provider"
  /\ \E i, j, k, l \in DOMAIN calls :
       /\ i < j /\ j < k /\ k < l
       /\ calls[i].op = "fetch" /\ ~calls[i].threw
       /\ AcceptedPatch(calls[j]) /\ AcceptedPatch(calls[k])
       /\ calls[j + 1].op = "config.get"
       /\ calls[l].op = "verify" /\ ~calls[l].threw
====
